---- MODULE Spec2Model ----
(***************************************************************************)
(* A model of the schema extractor: the merge engine of JSONExtractor      *)
(* (merge_schemas / _merge_elements) over a heap of Schema, SchemaElement  *)
(* and SchemaAttribute objects, extract() of the JSON and XML extractors   *)
(* (schema tree, statistics and data-node list), and the string type       *)
(* classifiers.                                                            *)
(*                                                                         *)
(* Python objects have identity: an object is an index into one of the     *)
(* three sequences of the heap, a field holding an object holds its index, *)
(* and 0 stands for None.  A dict is a function from its keys; an          *)
(* Optional[str] is <<>> for None and <<s>> for the string s.              *)
(***************************************************************************)
EXTENDS Integers, Sequences, FiniteSets, TLC

VARIABLES
    heap,     \* [attrs, elems, schemas]: the live objects, by identity
    inputs,   \* the list handed to merge_schemas: a sequence of Schema ids
    before,   \* the heap as it was when merge_schemas was called
    result,   \* the Schema id merge_schemas returned, 0 when it returned none
    error,    \* the exception merge_schemas raised, "" when none
    pc,       \* "call" before the call, "done" after it
    format,   \* "json" or "xml": the extractor a document is handed to
    document, \* the parsed document: a JSON value or the root XML element
    data_nodes, \* schema.data_nodes, the list extract() built
    schema,   \* the Schema extract() returned, NoValue before it returned
    extractor, \* the SchemaExtractor instance the call is made on
    counts,   \* per instance, the keys of its extractors' counter dicts
    calls,    \* the extract() calls that returned, with what they returned
    file,     \* what save_schema wrote to the output file, NoValue if nothing
    loaded,   \* the Schema load_schema returned, NoValue before it returned
    determined, \* the DataType _determine_data_type returned, "" before it
    json_schema, \* the dict to_json_schema returned, NoValue before it did
    save_args, \* format and directory save_schema was called with, or NoValue
    made_dirs \* the directories os.makedirs created

vars == <<heap, inputs, before, result, error, pc, format, document,
          data_nodes, schema, extractor, counts, calls, file, loaded,
          determined, json_schema,
          save_args, made_dirs>>

\* ------------------------------------------------------------------ bounds

\* Longest list handed to merge_schemas.
MaxSchemas == 3

\* Most items of the root container of a JSON document, and most children
\* of the root element of an XML document.
MaxItems == 2

\* Most extract() calls in a row, and most SchemaExtractor instances.
MaxCalls == 3
MaxExtractors == 2

\* Most pieces a str value to classify is made of.
MaxPieces == 3

\* ------------------------------------------------------------ Python values

NoneId == 0
NoneStr == <<>>
Some(s) == <<s>>

\* Python truthiness of an Optional[str]: None and "" are falsy.
Truthy(d) == d # NoneStr /\ d[1] # ""

EmptyMap == <<>>

\* Every dict with keys among D and values in R.
PartialFns(D, R) == UNION {[X -> R] : X \in SUBSET D}

\* Iteration order of the names of a dict (a fixed order; the merge never
\* lets two different names of one dict interact).
NameOrder == <<"id", "lang", "p", "q", "text">>

RECURSIVE KeysIn(_, _)
KeysIn(f, order) ==
    IF order = <<>> THEN <<>>
    ELSE IF Head(order) \in DOMAIN f
         THEN <<Head(order)>> \o KeysIn(f, Tail(order))
         ELSE KeysIn(f, Tail(order))

\* dict.items() as a sequence of <<key, value>>.
Items(f) ==
    LET ks == KeysIn(f, NameOrder) IN [i \in 1..Len(ks) |-> <<ks[i], f[ks[i]]>>]

RECURSIVE Flatten(_)
Flatten(ss) == IF ss = <<>> THEN <<>> ELSE Head(ss) \o Flatten(Tail(ss))

\* ------------------------------------------------------------- the models

\* SchemaAttribute(name, required, default_value).
SchemaAttribute(n, req, dv) ==
    [name |-> n, required |-> req, default_value |-> dv]

\* SchemaElement(name, data_type, properties, attributes, array_type).
SchemaElement(n, dt, props, as, at) ==
    [name |-> n, data_type |-> dt, properties |-> props, attributes |-> as,
     array_type |-> at]

\* Schema(name, root_element, total_elements, total_attributes, max_depth).
Schema(n, root, te, ta, md) ==
    [name |-> n, root_element |-> root, total_elements |-> te,
     total_attributes |-> ta, max_depth |-> md]

EmptyHeap == [attrs |-> <<>>, elems |-> <<>>, schemas |-> <<>>]

\* BaseModel.model_copy(): a new object whose fields hold the same values,
\* hence the same objects, as the original's (a shallow copy).
CopyElement(h, e) == [h EXCEPT !.elems = Append(@, h.elems[e])]
CopySchema(h, s) == [h EXCEPT !.schemas = Append(@, h.schemas[s])]

\* ------------------------------------------------------- the merge engine

RECURSIVE MergeElements(_, _), MergeProperties(_, _, _)

\* The loop "for attr_name, attr_schema in element.attributes.items()" over
\* every element: on a collision the attribute object already in
\* all_attributes is changed in place, otherwise the input's own attribute
\* object is put into all_attributes.
RECURSIVE MergeAttributes(_, _, _)

\* MergeAttributes with "or" for "and" in the required flag.
MergeAttributes_Or(h, items, all) ==
    IF items = <<>> THEN [h |-> h, all |-> all]
    ELSE LET attr_name == Head(items)[1]
             attr_schema == Head(items)[2]
         IN  IF attr_name \in DOMAIN all
             THEN LET existing_attr == all[attr_name]
                      h1 == [h EXCEPT !.attrs[existing_attr].required =
                                @ \/ h.attrs[attr_schema].required]
                      h2 == IF Truthy(h1.attrs[attr_schema].default_value)
                               /\ ~Truthy(h1.attrs[existing_attr].default_value)
                            THEN [h1 EXCEPT !.attrs[existing_attr].default_value =
                                     h1.attrs[attr_schema].default_value]
                            ELSE h1
                  IN  MergeAttributes(h2, Tail(items), all)
             ELSE MergeAttributes(h, Tail(items),
                                  all @@ (attr_name :> attr_schema))

MergeAttributes(h, items, all) ==
    IF items = <<>> THEN [h |-> h, all |-> all]
    ELSE LET attr_name == Head(items)[1]
             attr_schema == Head(items)[2]
         IN  IF attr_name \in DOMAIN all
             THEN LET existing_attr == all[attr_name]
                      h1 == [h EXCEPT !.attrs[existing_attr].required =
                                @ /\ h.attrs[attr_schema].required]
                      h2 == IF Truthy(h1.attrs[attr_schema].default_value)
                               /\ ~Truthy(h1.attrs[existing_attr].default_value)
                            THEN [h1 EXCEPT !.attrs[existing_attr].default_value =
                                     h1.attrs[attr_schema].default_value]
                            ELSE h1
                  IN  MergeAttributes(h2, Tail(items), all)
             ELSE MergeAttributes(h, Tail(items),
                                  all @@ (attr_name :> attr_schema))

\* MergeProperties with a colliding name overwritten instead of merged.
MergeProperties_Overwrite(h, items, all) ==
    IF items = <<>> THEN [h |-> h, all |-> all]
    ELSE LET prop_name == Head(items)[1]
             prop_schema == Head(items)[2]
         IN  IF prop_name \in DOMAIN all
             THEN MergeProperties(h, Tail(items),
                                  [all EXCEPT ![prop_name] = prop_schema])
             ELSE MergeProperties(h, Tail(items),
                                  all @@ (prop_name :> prop_schema))

\* The loop "for prop_name, prop_schema in element.properties.items()" over
\* every element: a colliding name is merged with what all_properties holds,
\* a new name takes the input's own element object.
MergeProperties(h, items, all) ==
    IF items = <<>> THEN [h |-> h, all |-> all]
    ELSE LET prop_name == Head(items)[1]
             prop_schema == Head(items)[2]
         IN  IF prop_name \in DOMAIN all
             THEN LET m == MergeElements(h, <<all[prop_name], prop_schema>>)
                  IN  MergeProperties(m.h, Tail(items),
                                      [all EXCEPT ![prop_name] = m.r])
             ELSE MergeProperties(h, Tail(items),
                                  all @@ (prop_name :> prop_schema))

\* MergeElements starting from a copy of the last element.
MergeElements_StartLast(h, elements) ==
    IF Len(elements) = 1 THEN [h |-> h, r |-> elements[1]]
    ELSE LET h0 == CopyElement(h, elements[Len(elements)])
             merged_element == Len(h0.elems)
             ps == MergeProperties(h0,
                       Flatten([i \in 1..Len(elements) |->
                                   Items(h0.elems[elements[i]].properties)]),
                       EmptyMap)
             h1 == [ps.h EXCEPT !.elems[merged_element].properties = ps.all]
             as == MergeAttributes(h1,
                       Flatten([i \in 1..Len(elements) |->
                                   Items(h1.elems[elements[i]].attributes)]),
                       EmptyMap)
             h2 == [as.h EXCEPT !.elems[merged_element].attributes = as.all]
         IN  [h |-> h2, r |-> merged_element]

\* MergeElements that merges the first and the last element only.
MergeElements_FirstAndLast(h, elements) ==
    IF Len(elements) = 1 THEN [h |-> h, r |-> elements[1]]
    ELSE LET ends == <<elements[1], elements[Len(elements)]>>
             h0 == CopyElement(h, ends[1])
             merged_element == Len(h0.elems)
             ps == MergeProperties(h0,
                       Flatten([i \in 1..Len(ends) |->
                                   Items(h0.elems[ends[i]].properties)]),
                       EmptyMap)
             h1 == [ps.h EXCEPT !.elems[merged_element].properties = ps.all]
             as == MergeAttributes(h1,
                       Flatten([i \in 1..Len(ends) |->
                                   Items(h1.elems[ends[i]].attributes)]),
                       EmptyMap)
             h2 == [as.h EXCEPT !.elems[merged_element].attributes = as.all]
         IN  [h |-> h2, r |-> merged_element]

\* _merge_elements(elements), elements a non-empty list of element ids:
\* [h |-> the heap afterwards, r |-> the element returned].
MergeElements(h, elements) ==
    IF Len(elements) = 1 THEN [h |-> h, r |-> elements[1]]
    ELSE LET h0 == CopyElement(h, elements[1])
             merged_element == Len(h0.elems)
             ps == MergeProperties(h0,
                       Flatten([i \in 1..Len(elements) |->
                                   Items(h0.elems[elements[i]].properties)]),
                       EmptyMap)
             h1 == [ps.h EXCEPT !.elems[merged_element].properties = ps.all]
             as == MergeAttributes(h1,
                       Flatten([i \in 1..Len(elements) |->
                                   Items(h1.elems[elements[i]].attributes)]),
                       EmptyMap)
             h2 == [as.h EXCEPT !.elems[merged_element].attributes = as.all]
         IN  [h |-> h2, r |-> merged_element]

\* MergeNonEmpty that merges the roots of the schemas that have one.
MergeNonEmpty_MergeRooted(h, schemas) ==
    IF Len(schemas) = 1 THEN [h |-> h, r |-> schemas[1], e |-> ""]
    ELSE LET h0 == CopySchema(h, schemas[1])
             merged_schema == Len(h0.schemas)
             h1 == [h0 EXCEPT !.schemas[merged_schema].name = "merged_schema"]
             HasRoot(s) == h1.schemas[s].root_element # NoneId
             rooted == SelectSeq(schemas, HasRoot)
         IN  IF rooted # <<>>
             THEN LET m == MergeElements(h1,
                               [i \in 1..Len(rooted) |->
                                   h1.schemas[rooted[i]].root_element])
                  IN  [h |-> [m.h EXCEPT
                                 !.schemas[merged_schema].root_element = m.r],
                       r |-> merged_schema, e |-> ""]
             ELSE [h |-> h1, r |-> merged_schema, e |-> ""]

\* MergeNonEmpty with the name of the copy left as it is.
MergeNonEmpty_KeepName(h, schemas) ==
    IF Len(schemas) = 1 THEN [h |-> h, r |-> schemas[1], e |-> ""]
    ELSE LET h0 == CopySchema(h, schemas[1])
             merged_schema == Len(h0.schemas)
             h1 == h0
         IN  IF h1.schemas[merged_schema].root_element # NoneId
                /\ \A i \in 2..Len(schemas) :
                       h1.schemas[schemas[i]].root_element # NoneId
             THEN LET m == MergeElements(h1,
                               [i \in 1..Len(schemas) |->
                                   h1.schemas[schemas[i]].root_element])
                  IN  [h |-> [m.h EXCEPT
                                 !.schemas[merged_schema].root_element = m.r],
                       r |-> merged_schema, e |-> ""]
             ELSE [h |-> h1, r |-> merged_schema, e |-> ""]

\* merge_schemas(schemas) past its guard, schemas a non-empty list:
\* [h, r |-> the schema returned, e |-> ""].
MergeNonEmpty(h, schemas) ==
    IF Len(schemas) = 1 THEN [h |-> h, r |-> schemas[1], e |-> ""]
    ELSE LET h0 == CopySchema(h, schemas[1])
             merged_schema == Len(h0.schemas)
             h1 == [h0 EXCEPT !.schemas[merged_schema].name = "merged_schema"]
         IN  IF h1.schemas[merged_schema].root_element # NoneId
                /\ \A i \in 2..Len(schemas) :
                       h1.schemas[schemas[i]].root_element # NoneId
             THEN LET m == MergeElements(h1,
                               [i \in 1..Len(schemas) |->
                                   h1.schemas[schemas[i]].root_element])
                  IN  [h |-> [m.h EXCEPT
                                 !.schemas[merged_schema].root_element = m.r],
                       r |-> merged_schema, e |-> ""]
             ELSE [h |-> h1, r |-> merged_schema, e |-> ""]

\* MergeSchemas without its guard: schemas[0] of an empty list.
MergeSchemas_NoGuard(h, schemas) ==
    IF schemas = <<>> THEN [h |-> h, r |-> NoneId, e |-> "IndexError"]
    ELSE MergeNonEmpty(h, schemas)

\* merge_schemas(schemas): [h, r |-> the schema returned or NoneId,
\* e |-> the exception raised or ""].
MergeSchemas(h, schemas) ==
    IF schemas = <<>> THEN [h |-> h, r |-> NoneId, e |-> "ValueError"]
    ELSE MergeNonEmpty(h, schemas)

\* --------------------------------------------- building the input schemas

\* A schema tree as a value, before it is built: an element is
\* [data_type, attributes, properties, array_type], attributes maps a name to
\* [required, default_value], properties maps a name to an element, and
\* array_type is an element or NoValue; a schema is [root], an element or
\* NoValue.
NoValue == [none |-> TRUE]

\* The counter dicts of a new SchemaExtractor: property_counts of its
\* JSONExtractor, element_counts and attribute_counts of its XMLExtractor.
\* Only len() of a counter dict is ever read, so a dict is the set of its keys.
NoCounts ==
    [property_counts |-> {}, element_counts |-> {}, attribute_counts |-> {}]

\* dict.clear() leaving the keys in.
Clear_Keep(keys) == keys

\* self.property_counts.clear()
Clear(keys) == {}

ElemV(dt, as, props) ==
    [data_type |-> dt, attributes |-> as, properties |-> props,
     array_type |-> NoValue]

RECURSIVE NewElement(_, _, _), NewProperties(_, _, _, _)

\* The constructors SchemaAttribute(...) called for each attribute of v, in
\* order: [h, all |-> name -> new attribute id].
RECURSIVE NewAttributes(_, _, _, _)
NewAttributes(h, v, names, all) ==
    IF names = <<>> THEN [h |-> h, all |-> all]
    ELSE LET n == Head(names)
             h1 == [h EXCEPT !.attrs = Append(@,
                        SchemaAttribute(n, v[n].required, v[n].default_value))]
         IN  NewAttributes(h1, v, Tail(names), all @@ (n :> Len(h1.attrs)))

NewProperties(h, v, names, all) ==
    IF names = <<>> THEN [h |-> h, all |-> all]
    ELSE LET c == NewElement(h, Head(names), v[Head(names)])
         IN  NewProperties(c.h, v, Tail(names), all @@ (Head(names) :> c.r))

\* SchemaElement(name = n, ...) built from the value v, children first.
NewElement(h, n, v) ==
    LET as == NewAttributes(h, v.attributes,
                            KeysIn(v.attributes, NameOrder), EmptyMap)
        ps == NewProperties(as.h, v.properties,
                            KeysIn(v.properties, NameOrder), EmptyMap)
        at == IF v.array_type = NoValue THEN [h |-> ps.h, r |-> NoneId]
              ELSE NewElement(ps.h, "item", v.array_type)
        h1 == [at.h EXCEPT !.elems = Append(@,
                   SchemaElement(n, v.data_type, ps.all, as.all, at.r))]
    IN  [h |-> h1, r |-> Len(h1.elems)]

RECURSIVE CountElements(_), CountAttributes(_), DepthOf(_)
CountElements(v) ==
    LET ks == KeysIn(v.properties, NameOrder)
        F[i \in 0..Len(ks)] ==
            IF i = 0 THEN 0 ELSE F[i - 1] + CountElements(v.properties[ks[i]])
    IN  1 + F[Len(ks)]
CountAttributes(v) ==
    LET ks == KeysIn(v.properties, NameOrder)
        F[i \in 0..Len(ks)] ==
            IF i = 0 THEN 0 ELSE F[i - 1] + CountAttributes(v.properties[ks[i]])
    IN  Cardinality(DOMAIN v.attributes) + F[Len(ks)]
DepthOf(v) ==
    LET ks == KeysIn(v.properties, NameOrder)
        F[i \in 0..Len(ks)] ==
            IF i = 0 THEN 0
            ELSE LET d == 1 + DepthOf(v.properties[ks[i]])
                 IN  IF d > F[i - 1] THEN d ELSE F[i - 1]
    IN  F[Len(ks)]

\* Schema(name = n, root_element = ...) built from the value v, with the
\* statistics of its tree.
NewSchema(h, n, v) ==
    IF v.root = NoValue
    THEN LET h1 == [h EXCEPT !.schemas = Append(@,
                        Schema(n, NoneId, 0, 0, 0))]
         IN  [h |-> h1, r |-> Len(h1.schemas)]
    ELSE LET e == NewElement(h, "root", v.root)
             h1 == [e.h EXCEPT !.schemas = Append(@,
                        Schema(n, e.r, CountElements(v.root),
                               CountAttributes(v.root), DepthOf(v.root)))]
         IN  [h |-> h1, r |-> Len(h1.schemas)]

SchemaNames == <<"s1", "s2", "s3", "s4", "s5">>

\* The heap holding the schemas of the list vs, built one after the other,
\* and their ids in list order.
RECURSIVE NewSchemas(_, _, _, _)
NewSchemas(h, vs, i, ids) ==
    IF i > Len(vs) THEN [h |-> h, ids |-> ids]
    ELSE LET s == NewSchema(h, SchemaNames[i], vs[i])
         IN  NewSchemas(s.h, vs, i + 1, Append(ids, s.r))

\* ------------------------------------------------------------ input domain

AttrValues(defaults) ==
    [required : BOOLEAN, default_value : defaults]

\* Trees of nesting depth 2: a root with attribute "id" (required or not)
\* and property "p", whose element has attribute "id" or property "q" or
\* neither.
Leaves == {ElemV("string", EmptyMap, EmptyMap)}
Inner ==
    {ElemV("object", as, ps) :
        <<as, ps>> \in
            {<<a, q>> \in
                PartialFns({"id"}, {[required |-> TRUE, default_value |-> NoneStr]})
                \X PartialFns({"q"}, Leaves) : a = EmptyMap \/ q = EmptyMap}}
Roots ==
    {ElemV("object", as, ps) :
        as \in PartialFns({"id"}, AttrValues({NoneStr})),
        ps \in PartialFns({"p"}, Inner)}
SchemaValues == {[root |-> r] : r \in Roots \cup {NoValue}}

Lists(S, n) == UNION {[1..k -> S] : k \in 0..n}

\* ------------------------------------------------------------------- spec

InitWith(values) ==
    \E vs \in Lists(values, MaxSchemas) :
        LET b == NewSchemas(EmptyHeap, vs, 1, <<>>) IN
        /\ heap = b.h
        /\ inputs = b.ids
        /\ before = b.h
        /\ result = NoneId
        /\ error = ""
        /\ pc = "call"
        /\ format = "none"
        /\ document = NoValue
        /\ data_nodes = <<>>
        /\ schema = NoValue
        /\ extractor = 1
        /\ counts = [i \in 1..MaxExtractors |-> NoCounts]
        /\ calls = <<>>
        /\ file = NoValue
        /\ loaded = NoValue
        /\ determined = ""
        /\ json_schema = NoValue
        /\ save_args = NoValue
        /\ made_dirs = {}

Init == InitWith(SchemaValues)

\* Schemas whose root has no property and may have attribute "id", with
\* every required flag and default value: None, "", "a", "b".
AttrRoots ==
    {ElemV("object", as, EmptyMap) :
        as \in PartialFns({"id"},
                 AttrValues({NoneStr, Some(""), Some("a"), Some("b")}))}
AttrSchemaValues == {[root |-> r] : r \in AttrRoots}

InitAttrs == InitWith(AttrSchemaValues)

\* merged = merge_schemas(inputs)
Merge ==
    /\ pc = "call"
    /\ LET m == MergeSchemas(heap, inputs) IN
       /\ heap' = m.h
       /\ result' = m.r
       /\ error' = m.e
    /\ before' = heap
    /\ pc' = "done"
    /\ UNCHANGED <<inputs, format, document, data_nodes, schema, extractor,
                   counts, calls, file, loaded, determined, json_schema,
                   save_args, made_dirs>>

Next == Merge

Spec == Init /\ [][Next]_vars

SpecAttrs == InitAttrs /\ [][Next]_vars

\* ------------------------------------------------- reading the object graph

\* The tree below element e as a value: what pydantic's == compares.
RECURSIVE ElementValue(_, _)
ElementValue(h, e) ==
    LET o == h.elems[e] IN
    [name |-> o.name,
     data_type |-> o.data_type,
     attributes |-> [n \in DOMAIN o.attributes |-> h.attrs[o.attributes[n]]],
     properties |-> [n \in DOMAIN o.properties |->
                        ElementValue(h, o.properties[n])],
     array_type |-> IF o.array_type = NoneId THEN NoValue
                    ELSE ElementValue(h, o.array_type)]

SchemaValue(h, s) ==
    LET o == h.schemas[s] IN
    [name |-> o.name,
     root_element |-> IF o.root_element = NoneId THEN NoValue
                      ELSE ElementValue(h, o.root_element),
     total_elements |-> o.total_elements,
     total_attributes |-> o.total_attributes,
     max_depth |-> o.max_depth]

Range(f) == {f[x] : x \in DOMAIN f}

\* The SchemaElement and SchemaAttribute objects reachable from element e.
RECURSIVE ElementObjects(_, _)
ElementObjects(h, e) ==
    LET o == h.elems[e] IN
    {<<"SchemaElement", e>>}
    \cup {<<"SchemaAttribute", a>> : a \in Range(o.attributes)}
    \cup UNION {ElementObjects(h, c) : c \in Range(o.properties)}
    \cup (IF o.array_type = NoneId THEN {} ELSE ElementObjects(h, o.array_type))

\* The objects reachable from schema s, itself included.
SchemaObjects(h, s) ==
    {<<"Schema", s>>}
    \cup (IF h.schemas[s].root_element = NoneId THEN {}
          ELSE ElementObjects(h, h.schemas[s].root_element))

\* The property paths of an element value: every sequence of property names
\* that leads from it to a descendant.
RECURSIVE PropertyPaths(_)
PropertyPaths(v) ==
    UNION {{<<n>>} \cup {<<n>> \o q : q \in PropertyPaths(v.properties[n])} :
              n \in DOMAIN v.properties}

\* What the call was given and what it returned.
Done == pc = "done"
InputRoot(i) == before.schemas[inputs[i]].root_element
AllHaveRoots == \A i \in 1..Len(inputs) : InputRoot(i) # NoneId
RootBefore(i) == ElementValue(before, InputRoot(i))
MergedRoot == ElementValue(heap, heap.schemas[result].root_element)
Merged2 == Done /\ Len(inputs) >= 2 /\ AllHaveRoots

AttrNames == {"id"}

\* ------------------------------------------------------------------ claims

\* C1: merging two schemas where attribute a is required on the root of one
\* and absent from the root of the other (in either order) gives a merged
\* root whose attribute a has required = false.
C1_AbsentMeansOptional ==
    (Merged2 /\ Len(inputs) = 2) =>
        \A a \in AttrNames : \A i \in 1..2 :
            LET j == 3 - i IN
            (/\ a \in DOMAIN RootBefore(i).attributes
             /\ RootBefore(i).attributes[a].required
             /\ a \notin DOMAIN RootBefore(j).attributes)
            => (/\ a \in DOMAIN MergedRoot.attributes
                /\ MergedRoot.attributes[a].required = FALSE)

\* C2: merge_schemas never changes its inputs: after the call every input
\* schema, with every element and attribute reachable from it, equals its
\* value before the call.
C2_InputsUnchanged ==
    Done => \A i \in 1..Len(inputs) :
                SchemaValue(heap, inputs[i]) = SchemaValue(before, inputs[i])

\* C3: the schema merge_schemas returns shares no Schema, SchemaElement or
\* SchemaAttribute object with any input schema, for a one-element list as
\* for longer lists.
C3_NoSharedObjects ==
    (Done /\ result # NoneId) =>
        \A i \in 1..Len(inputs) :
            SchemaObjects(heap, result) \cap SchemaObjects(heap, inputs[i]) = {}

\* C4: merge_schemas called with an empty list fails with an input error
\* (ValueError) and returns no schema.
C4_EmptyListFails ==
    (Done /\ inputs = <<>>) => (error = "ValueError" /\ result = NoneId)

C4_Witness == Done /\ inputs = <<>> /\ error = "ValueError"

\* The inputs whose root has attribute a, in list order.
Colliders(a) ==
    SelectSeq([i \in 1..Len(inputs) |-> i],
              LAMBDA i : a \in DOMAIN RootBefore(i).attributes)

\* The default values of the inputs whose root has attribute a, in list order.
Defaults(a) ==
    [k \in 1..Len(Colliders(a)) |->
        RootBefore(Colliders(a)[k]).attributes[a].default_value]

\* The first of the values ds that is in the set S, and none when there is
\* no such value.
FirstIn(ds, S) ==
    IF \E k \in 1..Len(ds) : ds[k] \in S
    THEN ds[CHOOSE k \in 1..Len(ds) :
                ds[k] \in S /\ \A j \in 1..(k - 1) : ds[j] \notin S]
    ELSE NoneStr

UnionAndRequired ==
    /\ DOMAIN MergedRoot.attributes =
           UNION {DOMAIN RootBefore(i).attributes : i \in 1..Len(inputs)}
    /\ \A a \in DOMAIN MergedRoot.attributes :
           MergedRoot.attributes[a].required =
               (\A i \in Range(Colliders(a)) :
                    RootBefore(i).attributes[a].required)

\* C5: the merged attribute map is the union of the inputs' attribute
\* names, required is the AND of the colliding inputs' flags, and
\* default_value is that of the first input, in list order, that specifies
\* one.  An input specifies a default when its default_value is neither None
\* nor the empty string (the code's test, and the extractor's own rule for
\* an empty attribute); when no input does, the merged default_value is the
\* first colliding input's.
C5_FirstNonEmptyDefault ==
    Merged2 =>
        /\ UnionAndRequired
        /\ \A a \in DOMAIN MergedRoot.attributes :
               MergedRoot.attributes[a].default_value =
                   IF \E d \in Range(Defaults(a)) : Truthy(d)
                   THEN FirstIn(Defaults(a),
                                {d \in Range(Defaults(a)) : Truthy(d)})
                   ELSE Defaults(a)[1]

\* Three roots collide on "id": the first has an empty default, the second
\* and third have different non-empty ones, the flags differ, and the merge
\* took the second's default and cleared required.
C5_Witness ==
    /\ Merged2 /\ Len(inputs) = 3
    /\ \A i \in 1..3 : "id" \in DOMAIN RootBefore(i).attributes
    /\ RootBefore(1).attributes["id"].default_value = Some("")
    /\ RootBefore(2).attributes["id"].default_value = Some("b")
    /\ RootBefore(3).attributes["id"].default_value = Some("a")
    /\ RootBefore(1).attributes["id"].required
    /\ ~RootBefore(3).attributes["id"].required
    /\ MergedRoot.attributes["id"] = SchemaAttribute("id", FALSE, Some("b"))

\* The elements the inputs' roots hold under property n, in list order.
ChildrenNamed(n) ==
    LET is == SelectSeq([i \in 1..Len(inputs) |-> i],
                        LAMBDA i : n \in DOMAIN before.elems[InputRoot(i)].properties)
    IN  [k \in 1..Len(is) |-> before.elems[InputRoot(is[k])].properties[n]]

\* C6: for two or more schemas that all have a root, the merged root's
\* property names are the union of the inputs' root property names, a name
\* present in several inputs holds the recursive merge of the colliding
\* elements in list order, and no input property name is lost at any level:
\* the property paths of the merged root are those of all the input roots.
C6_PropertiesUnion ==
    Merged2 =>
        /\ DOMAIN MergedRoot.properties =
               UNION {DOMAIN RootBefore(i).properties : i \in 1..Len(inputs)}
        /\ PropertyPaths(MergedRoot) =
               UNION {PropertyPaths(RootBefore(i)) : i \in 1..Len(inputs)}
        /\ \A n \in DOMAIN MergedRoot.properties :
               LET m == MergeElements(before, ChildrenNamed(n))
               IN  MergedRoot.properties[n] = ElementValue(m.h, m.r)

\* Three roots collide on "p"; only the last "p" has property "q", only the
\* second has attribute "id", and the merged "p" has both.
C6_Witness ==
    /\ Merged2 /\ Len(inputs) = 3
    /\ \A i \in 1..3 : "p" \in DOMAIN RootBefore(i).properties
    /\ \A i \in 1..2 : RootBefore(i).properties["p"].properties = EmptyMap
    /\ "q" \in DOMAIN RootBefore(3).properties["p"].properties
    /\ \A i \in {1, 3} : RootBefore(i).properties["p"].attributes = EmptyMap
    /\ "id" \in DOMAIN RootBefore(2).properties["p"].attributes
    /\ <<"p", "q">> \in PropertyPaths(MergedRoot)
    /\ "id" \in DOMAIN MergedRoot.properties["p"].attributes

\* ===================================================================
\* The extractors: type classification and the data-node walk
\* ===================================================================

\* A str value is the sequence of its characters; a dict key, a tag, an
\* attribute name and a path are TLA+ strings, joined with \o.
Digits == {"0", "1", "2", "3", "4", "5", "6", "7", "8", "9"}
\* The characters \s matches, among those of the model.
Whitespace == {" ", "\t", "\n"}

IsDigits(s, from, to) == \A i \in from..to : s[i] \in Digits

\* \d{4}-\d{2}-\d{2} at position i of s
DateAt(s, i) ==
    /\ Len(s) >= i + 9
    /\ IsDigits(s, i, i + 3) /\ s[i + 4] = "-"
    /\ IsDigits(s, i + 5, i + 6) /\ s[i + 7] = "-"
    /\ IsDigits(s, i + 8, i + 9)

\* \d{2}:\d{2}:\d{2} at position i of s
TimeAt(s, i) ==
    /\ Len(s) >= i + 7
    /\ IsDigits(s, i, i + 1) /\ s[i + 2] = ":"
    /\ IsDigits(s, i + 3, i + 4) /\ s[i + 5] = ":"
    /\ IsDigits(s, i + 6, i + 7)

\* Where a pattern ending in $ may end: at the end of s, or right before a
\* newline that is the last character of s.
DollarEnds(s) ==
    {Len(s)} \cup (IF s # <<>> /\ s[Len(s)] = "\n" THEN {Len(s) - 1} ELSE {})

\* re.compile(r'^\d{4}-\d{2}-\d{2}$').match(s)
MatchDate(s) == DateAt(s, 1) /\ 10 \in DollarEnds(s)

\* re.compile(r'^\d{4}-\d{2}-\d{2}[T\s]\d{2}:\d{2}:\d{2}').match(s): no $,
\* whatever follows the seconds is accepted.
MatchDatetime(s) ==
    /\ DateAt(s, 1)
    /\ Len(s) >= 11 /\ s[11] \in {"T"} \cup Whitespace
    /\ TimeAt(s, 12)

\* re.compile(r'^-?\d+$').match(s)
MatchInteger(s) ==
    \E e \in DollarEnds(s) :
        LET b == IF s # <<>> /\ s[1] = "-" THEN 2 ELSE 1
        IN  e >= b /\ IsDigits(s, b, e)

\* re.compile(r'^-?\d+\.\d+$').match(s)
MatchFloat(s) ==
    \E e \in DollarEnds(s) :
        LET b == IF s # <<>> /\ s[1] = "-" THEN 2 ELSE 1
        IN  \E d \in (b + 1)..(e - 1) :
                s[d] = "." /\ IsDigits(s, b, d - 1) /\ IsDigits(s, d + 1, e)

UpperCase ==
    <<"A", "B", "C", "D", "E", "F", "G", "H", "I", "J", "K", "L", "M",
      "N", "O", "P", "Q", "R", "S", "T", "U", "V", "W", "X", "Y", "Z">>
LowerCase ==
    <<"a", "b", "c", "d", "e", "f", "g", "h", "i", "j", "k", "l", "m",
      "n", "o", "p", "q", "r", "s", "t", "u", "v", "w", "x", "y", "z">>
Lower(c) ==
    IF \E k \in 1..Len(UpperCase) : UpperCase[k] = c
    THEN LowerCase[CHOOSE k \in 1..Len(UpperCase) : UpperCase[k] = c]
    ELSE c

\* re.compile(words, re.IGNORECASE).match(s), words the alternatives of a
\* pattern ^(w1|w2|...)$
MatchWords(s, words) ==
    \E e \in DollarEnds(s) : [i \in 1..e |-> Lower(s[i])] \in words

JsonBooleanWords == {<<"t", "r", "u", "e">>, <<"f", "a", "l", "s", "e">>}
XmlBooleanWords ==
    JsonBooleanWords \cup {<<"y", "e", "s">>, <<"n", "o">>, <<"1">>, <<"0">>}

\* JSONExtractor._infer_string_type(value): of data_type_patterns, in dict
\* order, only DATE and DATETIME are tried.
InferStringType(value) ==
    IF value = <<>> THEN "string"
    ELSE IF MatchDate(value) THEN "date"
    ELSE IF MatchDatetime(value) THEN "datetime"
    ELSE "string"

\* The classifier with the boolean pattern tried before the integer one.
XmlDataType_BooleanFirst(value) ==
    IF value = <<>> THEN "string"
    ELSE IF MatchWords(value, XmlBooleanWords) THEN "boolean"
    ELSE IF MatchInteger(value) THEN "integer"
    ELSE IF MatchFloat(value) THEN "float"
    ELSE IF MatchDate(value) THEN "date"
    ELSE IF MatchDatetime(value) THEN "datetime"
    ELSE "string"

\* XMLExtractor._determine_data_type(value): the first pattern of
\* data_type_patterns, in dict order, that matches.
XmlDataType(value) ==
    IF value = <<>> THEN "string"
    ELSE IF MatchInteger(value) THEN "integer"
    ELSE IF MatchFloat(value) THEN "float"
    ELSE IF MatchWords(value, XmlBooleanWords) THEN "boolean"
    ELSE IF MatchDate(value) THEN "date"
    ELSE IF MatchDatetime(value) THEN "datetime"
    ELSE "string"

\* -------------------------------------------------------------- JSON values

\* What json.load returns: None, a bool, an int, a float, a str, a list or a
\* dict (its items in document order, the keys distinct).
JNull == [t |-> "null"]
JBool(b) == [t |-> "bool", bool |-> b]
JInt(n) == [t |-> "int", int |-> n]
JFloat(x) == [t |-> "float", float |-> x]
JStr(cs) == [t |-> "str", str |-> cs]
JList(items) == [t |-> "list", list |-> items]
JDict(items) == [t |-> "dict", dict |-> items]

\* isinstance(data, type): bool is a subclass of int.
IsInstance(data, type) ==
    data.t = type \/ (type = "int" /\ data.t = "bool")

\* _determine_data_type testing int before bool.
JsonDataType_IntFirst(data) ==
    IF data.t = "null" THEN "null"
    ELSE IF IsInstance(data, "int") THEN "integer"
    ELSE IF IsInstance(data, "bool") THEN "boolean"
    ELSE IF IsInstance(data, "float") THEN "float"
    ELSE IF IsInstance(data, "str") THEN InferStringType(data.str)
    ELSE IF IsInstance(data, "list") THEN "array"
    ELSE IF IsInstance(data, "dict") THEN "object"
    ELSE "unknown"

\* JSONExtractor._determine_data_type(data)
JsonDataType(data) ==
    IF data.t = "null" THEN "null"
    ELSE IF IsInstance(data, "bool") THEN "boolean"
    ELSE IF IsInstance(data, "int") THEN "integer"
    ELSE IF IsInstance(data, "float") THEN "float"
    ELSE IF IsInstance(data, "str") THEN InferStringType(data.str)
    ELSE IF IsInstance(data, "list") THEN "array"
    ELSE IF IsInstance(data, "dict") THEN "object"
    ELSE "unknown"

\* DataNode(path, name, value, data_type, depth, parent_path, is_leaf)
DataNode(path, name, value, data_type, depth, parent_path, is_leaf) ==
    [path |-> path, name |-> name, value |-> value, data_type |-> data_type,
     depth |-> depth, parent_path |-> parent_path, is_leaf |-> is_leaf]

\* key.split('.')[-1] for the keys of the model
LastSegment(key) == IF key = "a.b" THEN "b" ELSE key

RECURSIVE JsonDataNodes(_, _, _, _, _)

\* JsonDataNodes handing its own depth, not depth + 1, to the children.
JsonDataNodes_SameDepth(data, path, name, depth, parent_path) ==
    LET data_type == JsonDataType(data)
        node == DataNode(path, name, data, data_type, depth, parent_path,
                         data_type \notin {"object", "array"})
        children ==
            IF data_type = "object" /\ data.t = "dict"
            THEN [k \in 1..Len(data.dict) |->
                     LET key == data.dict[k][1]
                         child_path == IF path # "root"
                                       THEN path \o "." \o key ELSE key
                     IN  JsonDataNodes(data.dict[k][2], child_path,
                                       LastSegment(key), depth, Some(path))]
            ELSE IF data_type = "array" /\ data.t = "list"
            THEN [i \in 1..Len(data.list) |->
                     LET suffix == "[" \o ToString(i - 1) \o "]"
                     IN  JsonDataNodes(data.list[i], path \o suffix,
                                       name \o suffix, depth, Some(path))]
            ELSE <<>>
    IN  <<node>> \o Flatten(children)

\* JsonDataNodes descending into the first item of a list only.
JsonDataNodes_FirstItem(data, path, name, depth, parent_path) ==
    LET data_type == JsonDataType(data)
        node == DataNode(path, name, data, data_type, depth, parent_path,
                         data_type \notin {"object", "array"})
        children ==
            IF data_type = "object" /\ data.t = "dict"
            THEN [k \in 1..Len(data.dict) |->
                     LET key == data.dict[k][1]
                         child_path == IF path # "root"
                                       THEN path \o "." \o key ELSE key
                     IN  JsonDataNodes(data.dict[k][2], child_path,
                                       LastSegment(key), depth + 1, Some(path))]
            ELSE IF data_type = "array" /\ data.t = "list"
            THEN [i \in 1..(IF data.list = <<>> THEN 0 ELSE 1) |->
                     LET suffix == "[" \o ToString(i - 1) \o "]"
                     IN  JsonDataNodes(data.list[i], path \o suffix,
                                       name \o suffix, depth + 1, Some(path))]
            ELSE <<>>
    IN  <<node>> \o Flatten(children)

\* JSONExtractor._extract_data_nodes(data, path, depth, parent_path); name
\* is path.split('.')[-1], handed down instead of parsed from the path.
JsonDataNodes(data, path, name, depth, parent_path) ==
    LET data_type == JsonDataType(data)
        node == DataNode(path, name, data, data_type, depth, parent_path,
                         data_type \notin {"object", "array"})
        children ==
            IF data_type = "object" /\ data.t = "dict"
            THEN [k \in 1..Len(data.dict) |->
                     LET key == data.dict[k][1]
                         child_path == IF path # "root"
                                       THEN path \o "." \o key ELSE key
                     IN  JsonDataNodes(data.dict[k][2], child_path,
                                       LastSegment(key), depth + 1, Some(path))]
            ELSE IF data_type = "array" /\ data.t = "list"
            THEN [i \in 1..Len(data.list) |->
                     LET suffix == "[" \o ToString(i - 1) \o "]"
                     IN  JsonDataNodes(data.list[i], path \o suffix,
                                       name \o suffix, depth + 1, Some(path))]
            ELSE <<>>
    IN  <<node>> \o Flatten(children)

\* --------------------------------------------------------------- XML trees

\* An lxml element: its tag, its attributes in document order, its text
\* (None or a str) and its child elements.
Element(tag, attrib, text, children) ==
    [tag |-> tag, attrib |-> attrib, text |-> text, children |-> children]

\* str.strip()
RECURSIVE LStrip(_)
LStrip(s) ==
    IF s # <<>> /\ Head(s) \in Whitespace THEN LStrip(Tail(s)) ELSE s
RECURSIVE RStrip(_)
RStrip(s) ==
    IF s # <<>> /\ s[Len(s)] \in Whitespace
    THEN RStrip(SubSeq(s, 1, Len(s) - 1)) ELSE s
Strip(s) == RStrip(LStrip(s))

\* "element.text and element.text.strip()" as a truth value
HasText(element) ==
    element.text # NoneStr /\ element.text[1] # <<>>
    /\ Strip(element.text[1]) # <<>>

\* XMLExtractor._determine_element_type(element)
ElementType(element) ==
    IF Len(element.children) > 0 THEN "object"
    ELSE IF HasText(element) THEN "string"
    ELSE IF element.attrib # <<>> THEN "object"
    ELSE "string"

\* XMLExtractor._extract_data_nodes(element, path, depth, parent_path)
RECURSIVE XmlDataNodes(_, _, _, _)

\* XmlDataNodes with an attribute's node at the depth of its element.
XmlDataNodes_AttrSameDepth(element, path, depth, parent_path) ==
    LET node == DataNode(path, element.tag,
                    IF HasText(element) THEN Some(Strip(element.text[1]))
                    ELSE NoneStr,
                    ElementType(element), depth, parent_path,
                    Len(element.children) = 0 /\ ~HasText(element))
        attr_nodes ==
            [k \in 1..Len(element.attrib) |->
                LET attr_name == element.attrib[k][1]
                    attr_value == element.attrib[k][2]
                IN  DataNode(path \o "@" \o attr_name, attr_name,
                             Some(attr_value), XmlDataType(attr_value),
                             depth, Some(path), TRUE)]
        text_nodes ==
            IF HasText(element)
            THEN <<DataNode(path \o "#text", "text",
                            Some(Strip(element.text[1])),
                            XmlDataType(Strip(element.text[1])), depth + 1,
                            Some(path), TRUE)>>
            ELSE <<>>
        children ==
            [i \in 1..Len(element.children) |->
                LET child == element.children[i]
                IN  XmlDataNodes(child, path \o "." \o child.tag, depth + 1,
                                 Some(path))]
    IN  <<node>> \o attr_nodes \o text_nodes \o Flatten(children)

XmlDataNodes(element, path, depth, parent_path) ==
    LET node == DataNode(path, element.tag,
                    IF HasText(element) THEN Some(Strip(element.text[1]))
                    ELSE NoneStr,
                    ElementType(element), depth, parent_path,
                    Len(element.children) = 0 /\ ~HasText(element))
        attr_nodes ==
            [k \in 1..Len(element.attrib) |->
                LET attr_name == element.attrib[k][1]
                    attr_value == element.attrib[k][2]
                IN  DataNode(path \o "@" \o attr_name, attr_name,
                             Some(attr_value), XmlDataType(attr_value),
                             depth + 1, Some(path), TRUE)]
        text_nodes ==
            IF HasText(element)
            THEN <<DataNode(path \o "#text", "text",
                            Some(Strip(element.text[1])),
                            XmlDataType(Strip(element.text[1])), depth + 1,
                            Some(path), TRUE)>>
            ELSE <<>>
        children ==
            [i \in 1..Len(element.children) |->
                LET child == element.children[i]
                IN  XmlDataNodes(child, path \o "." \o child.tag, depth + 1,
                                 Some(path))]
    IN  <<node>> \o attr_nodes \o text_nodes \o Flatten(children)

\* ------------------------------------------------------- schema extraction

\* A SchemaElement without the fields no extractor sets, and the
\* SchemaAttribute of an XML attribute, as values.
ElementSchema(name, data_type, properties, attributes, array_type, occurrences, examples) ==
    [name |-> name, data_type |-> data_type, properties |-> properties,
     attributes |-> attributes, array_type |-> array_type,
     occurrences |-> occurrences, examples |-> examples]
AttributeSchema(name, data_type, required, default_value) ==
    [name |-> name, data_type |-> data_type, required |-> required,
     default_value |-> default_value]

\* element.required, False when the element was built without the flag.
Required(element) ==
    IF "required" \in DOMAIN element THEN element.required ELSE FALSE

Max(a, b) == IF a > b THEN a ELSE b

\* JSONExtractor._extract_element_schema(data, name)
RECURSIVE JsonElementSchema(_, _)

\* JsonElementSchema without the loop over data[1:]: the item type is the
\* first item's, whatever the later items are.
JsonElementSchema_FirstOnly(data, name) ==
    LET data_type == JsonDataType(data)
        properties ==
            IF data_type = "object" /\ data.t = "dict"
            THEN [prop_name \in {data.dict[k][1] : k \in 1..Len(data.dict)} |->
                     LET k == CHOOSE k \in 1..Len(data.dict) :
                                  data.dict[k][1] = prop_name
                     IN  JsonElementSchema(data.dict[k][2], prop_name)]
            ELSE EmptyMap
        filled == data_type = "array" /\ data.t = "list" /\ data.list # <<>>
        first == JsonElementSchema(data.list[1], "item")
        array_type ==
            IF ~filled THEN NoValue
            ELSE first
        examples ==
            IF data_type \in {"string", "integer", "float", "boolean"}
            THEN <<data>> ELSE <<>>
    IN  ElementSchema(name, data_type, properties, EmptyMap, array_type,
                      IF filled THEN Len(data.list) ELSE 1, examples)

JsonElementSchema(data, name) ==
    LET data_type == JsonDataType(data)
        properties ==
            IF data_type = "object" /\ data.t = "dict"
            THEN [prop_name \in {data.dict[k][1] : k \in 1..Len(data.dict)} |->
                     LET k == CHOOSE k \in 1..Len(data.dict) :
                                  data.dict[k][1] = prop_name
                     IN  JsonElementSchema(data.dict[k][2], prop_name)]
            ELSE EmptyMap
        filled == data_type = "array" /\ data.t = "list" /\ data.list # <<>>
        first == JsonElementSchema(data.list[1], "item")
        array_type ==
            IF ~filled THEN NoValue
            ELSE IF \E i \in 2..Len(data.list) :
                        JsonDataType(data.list[i]) # first.data_type
                 THEN [first EXCEPT !.data_type = "unknown"]
                 ELSE first
        examples ==
            IF data_type \in {"string", "integer", "float", "boolean"}
            THEN <<data>> ELSE <<>>
    IN  ElementSchema(name, data_type, properties, EmptyMap, array_type,
                      IF filled THEN Len(data.list) ELSE 1, examples)

\* The keys of self.property_counts after _extract_element_schema(data, ..)
RECURSIVE JsonPropertyNames(_)
JsonPropertyNames(data) ==
    IF data.t = "dict"
    THEN UNION {{data.dict[k][1]} \cup JsonPropertyNames(data.dict[k][2]) :
                   k \in 1..Len(data.dict)}
    ELSE IF data.t = "list" /\ data.list # <<>>
    THEN JsonPropertyNames(data.list[1])
    ELSE {}

\* JSONExtractor._calculate_max_depth(data, current_depth)
RECURSIVE JsonMaxDepth(_, _)
JsonMaxDepth(data, current_depth) ==
    LET items == IF data.t = "dict"
                 THEN [k \in 1..Len(data.dict) |-> data.dict[k][2]]
                 ELSE IF data.t = "list" THEN data.list ELSE <<>>
        F[i \in 0..Len(items)] ==
            IF i = 0 THEN current_depth
            ELSE Max(F[i - 1], JsonMaxDepth(items[i], current_depth + 1))
    IN  F[Len(items)]

\* child_elements of XMLExtractor._extract_element_schema: the children of
\* one tag, and the first of them.
ChildTags(element) ==
    {element.children[i].tag : i \in 1..Len(element.children)}
ChildrenOf(element, tag) ==
    {i \in 1..Len(element.children) : element.children[i].tag = tag}
FirstChild(element, tag) ==
    element.children[CHOOSE i \in ChildrenOf(element, tag) :
                         \A j \in ChildrenOf(element, tag) : i <= j]

\* XMLExtractor._extract_element_schema(element)
RECURSIVE XmlElementSchema(_)

\* XmlElementSchema with the text property made for text of any type.
XmlElementSchema_TextAlways(element) ==
    LET data_type == ElementType(element)
        attributes ==
            [attr_name \in
                {element.attrib[k][1] : k \in 1..Len(element.attrib)} |->
                LET k == CHOOSE k \in 1..Len(element.attrib) :
                             element.attrib[k][1] = attr_name
                    attr_value == element.attrib[k][2]
                IN  AttributeSchema(attr_name, XmlDataType(attr_value), TRUE,
                        IF attr_value # <<>> THEN Some(attr_value)
                        ELSE NoneStr)]
        children ==
            IF data_type = "object"
            THEN [child_name \in ChildTags(element) |->
                     LET child_schema ==
                             XmlElementSchema(FirstChild(element, child_name))
                         n == Cardinality(ChildrenOf(element, child_name))
                     IN  IF n = 1 THEN child_schema
                         ELSE ElementSchema(child_name, "array", EmptyMap,
                                  EmptyMap, child_schema, n, <<>>)]
            ELSE EmptyMap
        text_content == Strip(element.text[1])
        text ==
            IF HasText(element)
            THEN "text" :> ElementSchema("text", XmlDataType(text_content),
                               EmptyMap, EmptyMap, NoValue, 1,
                               <<text_content>>)
            ELSE EmptyMap
    IN  ElementSchema(element.tag, data_type, text @@ children, attributes,
                      NoValue, 1, <<>>)

XmlElementSchema(element) ==
    LET data_type == ElementType(element)
        attributes ==
            [attr_name \in
                {element.attrib[k][1] : k \in 1..Len(element.attrib)} |->
                LET k == CHOOSE k \in 1..Len(element.attrib) :
                             element.attrib[k][1] = attr_name
                    attr_value == element.attrib[k][2]
                IN  AttributeSchema(attr_name, XmlDataType(attr_value), TRUE,
                        IF attr_value # <<>> THEN Some(attr_value)
                        ELSE NoneStr)]
        children ==
            IF data_type = "object"
            THEN [child_name \in ChildTags(element) |->
                     LET child_schema ==
                             XmlElementSchema(FirstChild(element, child_name))
                         n == Cardinality(ChildrenOf(element, child_name))
                     IN  IF n = 1 THEN child_schema
                         ELSE ElementSchema(child_name, "array", EmptyMap,
                                  EmptyMap, child_schema, n, <<>>)]
            ELSE EmptyMap
        text_content == Strip(element.text[1])
        text ==
            IF HasText(element) /\ XmlDataType(text_content) # "string"
            THEN "text" :> ElementSchema("text", XmlDataType(text_content),
                               EmptyMap, EmptyMap, NoValue, 1,
                               <<text_content>>)
            ELSE EmptyMap
    IN  ElementSchema(element.tag, data_type, text @@ children, attributes,
                      NoValue, 1, <<>>)

\* The keys of self.element_counts and of self.attribute_counts after
\* _extract_element_schema(element)
RECURSIVE XmlElementNames(_)
XmlElementNames(element) ==
    {element.tag}
    \cup UNION {XmlElementNames(FirstChild(element, tag)) :
                   tag \in ChildTags(element)}
RECURSIVE XmlAttributeNames(_)
XmlAttributeNames(element) ==
    {element.attrib[k][1] : k \in 1..Len(element.attrib)}
    \cup UNION {XmlAttributeNames(FirstChild(element, tag)) :
                   tag \in ChildTags(element)}

\* XMLExtractor._calculate_max_depth(element, current_depth)
RECURSIVE XmlMaxDepth(_, _)
XmlMaxDepth(element, current_depth) ==
    LET F[i \in 0..Len(element.children)] ==
            IF i = 0 THEN current_depth
            ELSE Max(F[i - 1],
                     XmlMaxDepth(element.children[i], current_depth + 1))
    IN  F[Len(element.children)]

\* The Schema an extraction returns, without its name and created_at.
ExtractedSchema(file_type, root_element, total_elements, total_attributes, max_depth, total_data_nodes) ==
    [file_type |-> file_type, root_element |-> root_element,
     total_elements |-> total_elements,
     total_attributes |-> total_attributes, max_depth |-> max_depth,
     total_data_nodes |-> total_data_nodes]

\* ------------------------------------------------------- document domains

\* JSON documents of nesting depth 2.  The keys include "root", the path of
\* the root node, and "a.b", which holds the path separator.
JsonKeys == {"a", "b", "a.b", "root"}
JsonScalars == {JNull, JInt(1), JStr(<<"x">>)}
JsonDeep == {JInt(1), JStr(<<"x">>)}
JsonInner ==
    JsonScalars
    \cup {JDict(<<>>), JList(<<>>)}
    \cup {JDict(<<<<k, v>>>>) : k \in {"b", "root"}, v \in JsonDeep}
    \cup {JList(<<v>>) : v \in JsonDeep}
JsonDocs ==
    JsonScalars
    \cup {JDict(items) : items \in
             {e \in Lists(JsonKeys \X JsonInner, MaxItems) :
                 \A i, j \in 1..Len(e) : e[i][1] = e[j][1] => i = j}}
    \cup {JList(items) : items \in Lists(JsonInner, MaxItems)}

\* XML documents of nesting depth 2: a root "r" whose children are tagged
\* "a" or "b" (two children may have the same tag), with or without an
\* attribute, text (blank, padded, a word or a number) or a child.
IdAttr == <<<<"id", <<"7">>>>>>
XmlDeep ==
    {Element("a", <<>>, NoneStr, <<>>),
     Element("a", IdAttr, Some(<<"x">>), <<>>)}
XmlShapes ==
    {<<at, tx, <<>>>> : at \in {<<>>}, tx \in
         {NoneStr, Some(<<" ">>), Some(<<"x">>), Some(<<" ", "7", "\n">>)}}
    \cup {<<IdAttr, NoneStr, <<>>>>}
    \cup {<<<<>>, NoneStr, <<c>>>> : c \in XmlDeep}
XmlInner ==
    {Element(tag, sh[1], sh[2], sh[3]) : tag \in {"a", "b"}, sh \in XmlShapes}
XmlDocs ==
    {Element("r", at, NoneStr, cs) :
        at \in {<<>>, IdAttr}, cs \in Lists(XmlInner, MaxItems)}

\* The str values to classify: up to MaxPieces pieces, each a date, a time,
\* a date and time, a separator or another character.
DatePiece == <<"2", "0", "2", "4", "-", "0", "1", "-", "1", "5">>
TimePiece == <<"1", "0", ":", "3", "0", ":", "0", "0">>
Pieces ==
    {DatePiece, TimePiece, DatePiece \o <<"T">> \o TimePiece,
     <<"2", "0", "2", "4", "-", "1", "-", "1", "5">>,
     <<"T">>, <<" ">>, <<"\t">>, <<"\n">>, <<"X">>, <<"7">>}
Strings == {Flatten(ps) : ps \in Lists(Pieces, MaxPieces)}

\* The documents that hold one str value: a JSON document that is a string,
\* and an XML root whose attribute "id" has the value.
StringDocs ==
    [format : {"json"}, document : {JStr(s) : s \in Strings}]
    \cup [format : {"xml"},
          document : {Element("r", <<<<"id", s>>>>, NoneStr, <<>>) :
                         s \in Strings}]

\* ------------------------------------------------------- extraction specs

InitDocs(docs) ==
    /\ heap = EmptyHeap
    /\ inputs = <<>>
    /\ before = EmptyHeap
    /\ result = NoneId
    /\ error = ""
    /\ pc = "call"
    /\ \E d \in docs : format = d.format /\ document = d.document
    /\ data_nodes = <<>>
    /\ schema = NoValue
    /\ extractor = 1
    /\ counts = [i \in 1..MaxExtractors |-> NoCounts]
    /\ calls = <<>>
    /\ file = NoValue
    /\ loaded = NoValue
    /\ determined = ""
    /\ json_schema = NoValue
    /\ save_args = NoValue
    /\ made_dirs = {}

InitExtract ==
    InitDocs([format : {"json"}, document : JsonDocs]
             \cup [format : {"xml"}, document : XmlDocs])

InitStrings == InitDocs(StringDocs)

\* What a call of extract() returned, as its caller keeps it.
Call(instance, file_type, data, returned, nodes) ==
    [extractor |-> instance, format |-> file_type, document |-> data,
     schema |-> returned, data_nodes |-> nodes]

\* JSONExtractor.extract, from the parsed document on
ExtractJson ==
    /\ pc = "call" /\ format = "json"
    /\ LET property_counts ==
               Clear(counts[extractor].property_counts)
               \cup JsonPropertyNames(document)
           root_element == JsonElementSchema(document, "root")
           nodes == JsonDataNodes(document, "root", "root", 0, NoneStr)
           returned == ExtractedSchema("json", root_element,
                           Cardinality(property_counts), 0,
                           JsonMaxDepth(document, 0), Len(nodes))
       IN  /\ counts' = [counts EXCEPT
                            ![extractor].property_counts = property_counts]
           /\ data_nodes' = nodes
           /\ schema' = returned
           /\ calls' = Append(calls,
                           Call(extractor, format, document, returned, nodes))
    /\ pc' = "done"
    /\ UNCHANGED <<heap, inputs, before, result, error, format, document,
                   extractor, file, loaded, determined, json_schema,
                   save_args, made_dirs>>

\* XMLExtractor.extract, from the parsed document on
ExtractXml ==
    /\ pc = "call" /\ format = "xml"
    /\ LET element_counts ==
               Clear(counts[extractor].element_counts)
               \cup XmlElementNames(document)
           attribute_counts ==
               Clear(counts[extractor].attribute_counts)
               \cup XmlAttributeNames(document)
           root_element == XmlElementSchema(document)
           nodes == XmlDataNodes(document, document.tag, 0, NoneStr)
           returned == ExtractedSchema("xml", root_element,
                           Cardinality(element_counts),
                           Cardinality(attribute_counts),
                           XmlMaxDepth(document, 0), Len(nodes))
       IN  /\ counts' = [counts EXCEPT
                            ![extractor].element_counts = element_counts,
                            ![extractor].attribute_counts = attribute_counts]
           /\ data_nodes' = nodes
           /\ schema' = returned
           /\ calls' = Append(calls,
                           Call(extractor, format, document, returned, nodes))
    /\ pc' = "done"
    /\ UNCHANGED <<heap, inputs, before, result, error, format, document,
                   extractor, file, loaded, determined, json_schema,
                   save_args, made_dirs>>

NextExtract == ExtractJson \/ ExtractXml

SpecExtract == InitExtract /\ [][NextExtract]_vars

SpecStrings == InitStrings /\ [][NextExtract]_vars

\* The documents of a run of calls: JSON and XML documents whose names
\* differ from one document to the other.
CallDocs ==
    [format : {"json"},
     document : {JInt(1), JDict(<<<<"a", JInt(1)>>>>),
                 JDict(<<<<"b", JStr(<<"x">>)>>>>)}]
    \cup [format : {"xml"},
          document : {Element("r", IdAttr, NoneStr, <<>>),
                      Element("r", <<>>, NoneStr,
                              <<Element("a", <<>>, NoneStr, <<>>)>>)}]

InitCalls == InitDocs(CallDocs)

\* The caller keeps the Schema it got and calls extract_schema again, on
\* any SchemaExtractor and any document.
NextCall ==
    /\ pc = "done" /\ format \in {"json", "xml"}
    /\ Len(calls) < MaxCalls
    /\ \E d \in CallDocs, i \in 1..MaxExtractors :
           /\ format' = d.format
           /\ document' = d.document
           /\ extractor' = i
    /\ pc' = "call"
    /\ data_nodes' = <<>>
    /\ schema' = NoValue
    /\ UNCHANGED <<heap, inputs, before, result, error, counts, calls, file,
                   loaded, determined, json_schema,
                   save_args, made_dirs>>

NextCalls == ExtractJson \/ ExtractXml \/ NextCall

SpecCalls == InitCalls /\ [][NextCalls]_vars

\* ---------------------------------------------------- claims on extraction

Extracted == pc = "done" /\ format \in {"json", "xml"}

\* C7: in the Data Node List of an extraction the first node is the root,
\* with depth 0 and no parent_path; every other node has a parent_path, which
\* is the path of a node at a smaller index, one level above it.
C7_PreOrder ==
    Extracted =>
        /\ data_nodes # <<>>
        /\ data_nodes[1].depth = 0
        /\ data_nodes[1].parent_path = NoneStr
        /\ \A i \in 2..Len(data_nodes) :
               /\ data_nodes[i].parent_path # NoneStr
               /\ \E j \in 1..(i - 1) :
                      /\ data_nodes[j].path = data_nodes[i].parent_path[1]
                      /\ data_nodes[i].depth = data_nodes[j].depth + 1

\* A JSON document with a node at depth 2 below a member named "root", whose
\* path is the root's own.
C7_Witness ==
    /\ Extracted /\ format = "json"
    /\ Len(data_nodes) = 3
    /\ data_nodes[2].path = "root" /\ data_nodes[2].depth = 1
    /\ data_nodes[3].depth = 2 /\ data_nodes[3].parent_path = Some("root")

\* C8: no two DataNodes of one extraction have the same path.
C8_UniquePaths ==
    Extracted =>
        \A i, j \in 1..Len(data_nodes) :
            data_nodes[i].path = data_nodes[j].path => i = j

\* The str value that was classified and the DataType it was given: the root
\* node of a JSON document that is a string, the node of attribute "id" of an
\* XML root.
Classified ==
    /\ Extracted
    /\ \/ format = "json" /\ document.t = "str"
       \/ format = "xml" /\ Len(document.attrib) = 1
Value == IF format = "json" THEN document.str ELSE document.attrib[1][2]
ValueType ==
    IF format = "json" THEN data_nodes[1].data_type ELSE data_nodes[2].data_type

\* C9: a JSON string that starts with a YYYY-MM-DD date is classified date
\* when nothing follows the date, datetime when 'T' or a space and HH:MM:SS
\* follow it, and string when anything else follows; the empty string is
\* classified string.
C9_DateSuffix ==
    (Classified /\ format = "json") =>
        /\ Value = <<>> => ValueType = "string"
        /\ DateAt(Value, 1) =>
               ValueType =
                   IF Len(Value) = 10 THEN "date"
                   ELSE IF Value[11] \in {"T", " "} /\ TimeAt(Value, 12)
                        THEN "datetime"
                   ELSE "string"

\* C10: the date and datetime patterns are anchored to the whole value: a
\* value is classified datetime only when all of it is YYYY-MM-DD, 'T' or a
\* space, HH:MM:SS, date only when all of it is YYYY-MM-DD, and a value that
\* holds such a shape with a further character before or after it, and so is
\* not itself of either shape, is classified string.
C10_Anchored ==
    LET IsDate(s) == Len(s) = 10 /\ DateAt(s, 1)
        IsDateTime(s) ==
            Len(s) = 19 /\ DateAt(s, 1) /\ s[11] \in {"T", " "} /\ TimeAt(s, 12)
    IN  Classified =>
            /\ ValueType = "datetime" => IsDateTime(Value)
            /\ ValueType = "date" => IsDate(Value)
            /\ \A i \in 1..Len(Value) : \A k \in i..Len(Value) :
                   (/\ ~IsDateTime(Value) /\ ~IsDate(Value)
                    /\ \/ IsDateTime(SubSeq(Value, i, k))
                       \/ IsDate(SubSeq(Value, i, k)))
                   => ValueType = "string"

\* The positions _extract_element_schema walks, each with the SchemaElement
\* built for it: the value itself, the members of a dict, the first item of
\* a list.
RECURSIVE JsonWalked(_, _)
JsonWalked(data, element) ==
    {<<data, element>>}
    \cup (IF data.t = "dict"
          THEN UNION {JsonWalked(data.dict[k][2],
                                 element.properties[data.dict[k][1]]) :
                         k \in 1..Len(data.dict)}
          ELSE IF data.t = "list" /\ data.list # <<>>
          THEN JsonWalked(data.list[1], element.array_type)
          ELSE {})

RECURSIVE XmlNodeCount(_)
XmlNodeCount(element) ==
    LET F[k \in 0..Len(element.children)] ==
            IF k = 0 THEN 0 ELSE F[k - 1] + XmlNodeCount(element.children[k])
    IN  1 + Len(element.attrib) + (IF HasText(element) THEN 1 ELSE 0)
          + F[Len(element.children)]

\* Every element of the tree with the index of its own DataNode in the
\* list, the element's node being appended at index i.
RECURSIVE XmlElementNodes(_, _)
XmlElementNodes(element, i) ==
    LET first == i + 1 + Len(element.attrib)
                   + (IF HasText(element) THEN 1 ELSE 0)
        At[k \in 1..Len(element.children)] ==
            IF k = 1 THEN first
            ELSE At[k - 1] + XmlNodeCount(element.children[k - 1])
    IN  {<<element, i>>}
        \cup UNION {XmlElementNodes(element.children[k], At[k]) :
                       k \in 1..Len(element.children)}

\* C12: the DataNode of an XML element has is_leaf true iff its DataType is
\* neither object nor array and the element has no child and no non-blank
\* text; an element with no attribute, text or child is a leaf of DataType
\* string, and an element with attributes only is object-typed, not a leaf
\* and has no value.
C12_IsLeaf ==
    (Extracted /\ format = "xml") =>
        \A en \in XmlElementNodes(document, 1) :
            LET element == en[1]
                node == data_nodes[en[2]]
                bare == Len(element.children) = 0 /\ ~HasText(element)
            IN  /\ node.is_leaf <=>
                       (node.data_type \notin {"object", "array"} /\ bare)
                /\ (bare /\ element.attrib = <<>>) =>
                       (node.is_leaf /\ node.data_type = "string")
                /\ (bare /\ element.attrib # <<>>) =>
                       /\ node.data_type = "object"
                       /\ ~node.is_leaf
                       /\ node.value = NoneStr

\* C13: two extractions of the same document, on the same SchemaExtractor or
\* on two, whatever was extracted in between, return schemas equal in every
\* field (created_at apart): root element tree, data nodes and statistics.
C13_Idempotent ==
    \A i, j \in 1..Len(calls) :
        (calls[i].format = calls[j].format
         /\ calls[i].document = calls[j].document)
        => /\ calls[i].schema = calls[j].schema
           /\ calls[i].data_nodes = calls[j].data_nodes

\* One instance extracted a document, then a document with other names,
\* then the first document again.
C13_Witness ==
    /\ Len(calls) = 3
    /\ calls[1].extractor = calls[2].extractor
    /\ calls[2].extractor = calls[3].extractor
    /\ calls[1].format = "json" /\ calls[2].format = "json"
    /\ calls[1].document = calls[3].document
    /\ calls[1].schema.total_elements = 1
    /\ calls[2].schema.total_elements = 1
    /\ calls[2].schema.root_element # calls[1].schema.root_element

\* ------------------------------------------------------------ persistence

\* What model_dump and json.dump make of the model's values.  A str that the
\* model holds as a TLA+ string (a name, a path, a DataType value) is JName;
\* a dict keyed by names is JMap, a function of its keys.
JName(s) == [t |-> "str", name |-> s]
JMap(f) == [t |-> "dict", map |-> f]

\* The values of DataType
DataTypes ==
    {"string", "integer", "float", "boolean", "object", "array", "null",
     "date", "datetime", "unknown"}

\* A field typed Any: a JSON extraction holds a json.load value there, an
\* XML extraction a str.
DumpAny(file_type, v) == IF file_type = "json" THEN v ELSE JStr(v)
LoadAny(file_type, j) ==
    IF file_type = "json" THEN j ELSE IF j.t = "str" THEN j.str ELSE j

\* model_dump of a SchemaAttribute
DumpAttribute(a) ==
    JMap([name |-> JName(a.name),
          data_type |-> JName(a.data_type),
          required |-> JBool(a.required),
          default_value |-> IF a.default_value = NoneStr THEN JNull
                            ELSE JStr(a.default_value[1])])

\* model_dump of a SchemaElement
RECURSIVE DumpElement(_, _)
DumpElement(file_type, e) ==
    JMap([name |-> JName(e.name),
          data_type |-> JName(e.data_type),
          properties |-> JMap([n \in DOMAIN e.properties |->
                                  DumpElement(file_type, e.properties[n])]),
          attributes |-> JMap([n \in DOMAIN e.attributes |->
                                  DumpAttribute(e.attributes[n])]),
          array_type |-> IF e.array_type = NoValue THEN JNull
                         ELSE DumpElement(file_type, e.array_type),
          occurrences |-> JInt(e.occurrences),
          examples |-> JList([i \in 1..Len(e.examples) |->
                                 DumpAny(file_type, e.examples[i])])])

\* model_dump of a DataNode
DumpDataNode(file_type, n) ==
    JMap([path |-> JName(n.path),
          name |-> JName(n.name),
          value |-> IF file_type = "json" THEN n.value
                    ELSE IF n.value = NoneStr THEN JNull
                    ELSE JStr(n.value[1]),
          data_type |-> JName(n.data_type),
          depth |-> JInt(n.depth),
          parent_path |-> IF n.parent_path = NoneStr THEN JNull
                          ELSE JName(n.parent_path[1]),
          is_leaf |-> JBool(n.is_leaf)])

\* Schema.to_dict(), as json.dump writes it and json.load reads it back
ToDict(returned, nodes) ==
    JMap([file_type |-> JName(returned.file_type),
          root_element |-> IF returned.root_element = NoValue THEN JNull
                           ELSE DumpElement(returned.file_type,
                                            returned.root_element),
          total_elements |-> JInt(returned.total_elements),
          total_attributes |-> JInt(returned.total_attributes),
          max_depth |-> JInt(returned.max_depth),
          total_data_nodes |-> JInt(returned.total_data_nodes),
          data_nodes |-> JList([i \in 1..Len(nodes) |->
                                   DumpDataNode(returned.file_type, nodes[i])])])

\* model_validate, field by field: a value of another type than the
\* field's is a validation error.
Invalid == [invalid |-> TRUE]
StrField(j) == IF j.t = "str" THEN j.name ELSE Invalid
IntField(j) == IF j.t = "int" THEN j.int ELSE Invalid
BoolField(j) == IF j.t = "bool" THEN j.bool ELSE Invalid
DataTypeField(j) ==
    IF j.t = "str" /\ j.name \in DataTypes THEN j.name ELSE Invalid
OptionalStr(j) ==
    IF j.t = "null" THEN NoneStr
    ELSE IF j.t = "str" THEN Some(j.str) ELSE Invalid
OptionalName(j) ==
    IF j.t = "null" THEN NoneStr
    ELSE IF j.t = "str" THEN Some(j.name) ELSE Invalid

ValidateAttribute(j) ==
    IF j.t # "dict" THEN Invalid
    ELSE AttributeSchema(StrField(j.map.name), DataTypeField(j.map.data_type),
                         BoolField(j.map.required),
                         OptionalStr(j.map.default_value))

RECURSIVE ValidateElement(_, _)
ValidateElement(file_type, j) ==
    IF j.t # "dict" THEN Invalid
    ELSE ElementSchema(
             StrField(j.map.name),
             DataTypeField(j.map.data_type),
             IF j.map.properties.t # "dict" THEN Invalid
             ELSE [n \in DOMAIN j.map.properties.map |->
                      ValidateElement(file_type, j.map.properties.map[n])],
             IF j.map.attributes.t # "dict" THEN Invalid
             ELSE [n \in DOMAIN j.map.attributes.map |->
                      ValidateAttribute(j.map.attributes.map[n])],
             IF j.map.array_type.t = "null" THEN NoValue
             ELSE ValidateElement(file_type, j.map.array_type),
             IntField(j.map.occurrences),
             IF j.map.examples.t # "list" THEN Invalid
             ELSE [i \in 1..Len(j.map.examples.list) |->
                      LoadAny(file_type, j.map.examples.list[i])])

ValidateDataNode(file_type, j) ==
    IF j.t # "dict" THEN Invalid
    ELSE DataNode(StrField(j.map.path), StrField(j.map.name),
                  IF file_type = "json" THEN j.map.value
                  ELSE OptionalStr(j.map.value),
                  DataTypeField(j.map.data_type), IntField(j.map.depth),
                  OptionalName(j.map.parent_path), BoolField(j.map.is_leaf))

\* What load_schema returns: the Schema and, apart, its data_nodes.
Loaded(returned, nodes) == [schema |-> returned, data_nodes |-> nodes]

\* Schema.model_construct(**data): the fields are taken as they are.
LoadSchema_Construct(j) ==
    Loaded(ExtractedSchema(j.map.file_type.name, j.map.root_element,
               j.map.total_elements, j.map.total_attributes, j.map.max_depth,
               j.map.total_data_nodes),
           j.map.data_nodes)

\* load_schema: Schema.model_validate(data)
LoadSchema(j) ==
    IF j.t # "dict" THEN Invalid
    ELSE LET file_type == StrField(j.map.file_type) IN
         Loaded(ExtractedSchema(file_type,
                    IF j.map.root_element.t = "null" THEN NoValue
                    ELSE ValidateElement(file_type, j.map.root_element),
                    IntField(j.map.total_elements),
                    IntField(j.map.total_attributes),
                    IntField(j.map.max_depth),
                    IntField(j.map.total_data_nodes)),
                IF j.map.data_nodes.t # "list" THEN Invalid
                ELSE [i \in 1..Len(j.map.data_nodes.list) |->
                         ValidateDataNode(file_type, j.map.data_nodes.list[i])])

\* str.lower() of a str held as its characters.
LowerStr(s) == [i \in 1..Len(s) |-> Lower(s[i])]

\* The text Schema.to_xsd() returns, kept as the tree of its xs:element
\* tags: an object is a complexType with a sequence of its properties (when
\* it has any) and its attributes, an array a complexType with a sequence
\* of one unbounded "item", any other element a tag with its type and
\* minOccurs="0" unless required.
XsdElement(name, kind, type, optional, sequence, attributes) ==
    [name |-> name, kind |-> kind, type |-> type, optional |-> optional,
     sequence |-> sequence, attributes |-> attributes]

\* Schema._element_to_xsd(element)
RECURSIVE ElementToXsd(_)
ElementToXsd(element) ==
    IF element.data_type = "object"
    THEN XsdElement(element.name, "complexType", "", FALSE,
             [n \in DOMAIN element.properties |->
                 ElementToXsd(element.properties[n])],
             [n \in DOMAIN element.attributes |->
                 LET attr == element.attributes[n]
                 IN  [type |-> "xs:" \o attr.data_type,
                      optional |-> ~attr.required,
                      default |-> IF Truthy(attr.default_value)
                                  THEN attr.default_value ELSE NoneStr]])
    ELSE IF element.data_type = "array"
    THEN XsdElement(element.name, "complexType", "", FALSE,
             [n \in {"item"} |->
                 XsdElement("item", "unbounded",
                     "xs:" \o (IF element.array_type # NoValue
                               THEN element.array_type.data_type
                               ELSE "string"),
                     FALSE, EmptyMap, EmptyMap)],
             EmptyMap)
    ELSE XsdElement(element.name, "element", "xs:" \o element.data_type,
                    ~Required(element), EmptyMap, EmptyMap)

\* Schema.to_xsd(): the empty str without root element.
ToXsd(s) ==
    IF s.root_element = NoValue THEN [xsd |-> NoValue]
    ELSE [xsd |-> ElementToXsd(s.root_element)]

\* The branches of save_schema on format.lower(): what the output file
\* holds afterwards, the exception raised and where the call ends.
\* SaveSchemaResult_Default takes the "json" branch for every other format.
SaveSchemaResult_Default(returned, nodes, output_format, old) ==
    IF LowerStr(output_format) = <<"x", "s", "d">>
    THEN [file |-> [format |-> output_format, content |-> ToXsd(returned)],
          error |-> "", pc |-> "saved_xsd"]
    ELSE [file |-> [format |-> output_format,
                    content |-> ToDict(returned, nodes)],
          error |-> "", pc |-> "saved"]

SaveSchemaResult(returned, nodes, output_format, old) ==
    IF LowerStr(output_format) = <<"j", "s", "o", "n">>
    THEN [file |-> [format |-> output_format,
                    content |-> ToDict(returned, nodes)],
          error |-> "", pc |-> "saved"]
    ELSE IF LowerStr(output_format) = <<"x", "s", "d">>
    THEN [file |-> [format |-> output_format, content |-> ToXsd(returned)],
          error |-> "", pc |-> "saved_xsd"]
    ELSE IF LowerStr(output_format) = <<"d", "i", "c", "t">>
    THEN [file |-> [format |-> output_format,
                    content |-> ToDict(returned, nodes)],
          error |-> "", pc |-> "saved"]
    ELSE [file |-> old, error |-> "ValueError", pc |-> "failed"]

\* save_schema(schema, output_path, format), format one of formats and the
\* directory of output_path one of dirs ("" for a bare file name): the
\* directory is made first, then the file is written or the call fails.
SaveSchemaWith(formats, dirs) ==
    /\ pc = "done" /\ format \in {"json", "xml"}
    /\ \E output_format \in formats, output_dir \in dirs :
           LET r == SaveSchemaResult(schema, data_nodes, output_format, file)
           IN  /\ save_args' = [format |-> output_format,
                                output_dir |-> output_dir]
               /\ made_dirs' = IF output_dir # "" THEN made_dirs \cup {output_dir}
                               ELSE made_dirs
               /\ file' = r.file
               /\ error' = r.error
               /\ pc' = r.pc
    /\ UNCHANGED <<heap, inputs, before, result, format, document,
                   data_nodes, schema, extractor, counts, calls, loaded,
                   determined, json_schema>>

\* save_schema(schema, output_path, format) with format "json" or "dict"
\* and a bare file name
SaveSchema ==
    SaveSchemaWith({<<"j", "s", "o", "n">>, <<"d", "i", "c", "t">>}, {""})

\* load_schema(file_path) of the file save_schema wrote
Load ==
    /\ pc = "saved"
    /\ loaded' = LoadSchema(file.content)
    /\ pc' = "loaded"
    /\ UNCHANGED <<heap, inputs, before, result, error, format, document,
                   data_nodes, schema, extractor, counts, calls, file,
                   determined, json_schema,
                   save_args, made_dirs>>

NextSave == ExtractJson \/ ExtractXml \/ SaveSchema \/ Load

SpecSave == InitExtract /\ [][NextSave]_vars

RECURSIVE SchemaElements(_)
SchemaElements(e) ==
    {e}
    \cup UNION {SchemaElements(e.properties[n]) : n \in DOMAIN e.properties}
    \cup (IF e.array_type = NoValue THEN {} ELSE SchemaElements(e.array_type))

\* C15: in the schema tree of a JSON or XML extraction every SchemaElement
\* has array_type set iff its DataType is array, and has properties only if
\* its DataType is object.
C15_ElementShape ==
    Extracted =>
        \A e \in SchemaElements(schema.root_element) :
            /\ e.array_type # NoValue <=> e.data_type = "array"
            /\ DOMAIN e.properties # {} => e.data_type = "object"

\* C16: the max_depth of an extracted schema is the greatest depth of the
\* DataNodes of that extraction, attribute and text nodes included.
C16_MaxDepth ==
    Extracted =>
        /\ \A i \in 1..Len(data_nodes) : data_nodes[i].depth <= schema.max_depth
        /\ \E i \in 1..Len(data_nodes) : data_nodes[i].depth = schema.max_depth

\* ------------------------------------------------- the classifier by itself

\* Values to classify: what json.load can return, with the bools, a float
\* with and without a fractional part, str values that read as a number or
\* a bool, and a value of another type (a tuple, say).
JOther == [t |-> "other"]
WordStrings ==
    {<<>>, <<"4", "2">>, <<"-", "7">>, <<"1", ".", "5">>,
     <<"t", "r", "u", "e">>, <<"F", "a", "l", "s", "e">>}
ClassifyValues ==
    {JNull, JBool(TRUE), JBool(FALSE), JInt(0), JInt(1), JInt(42),
     JFloat(<<1, 5>>), JFloat(<<1, 0>>), JOther}
    \cup JsonInner
    \cup {JStr(s) : s \in Strings \cup WordStrings}

InitClassify ==
    /\ InitDocs([format : {"value"}, document : ClassifyValues])

\* data_type = self._determine_data_type(data)
Classify ==
    /\ pc = "call" /\ format = "value"
    /\ determined' = JsonDataType(document)
    /\ pc' = "done"
    /\ UNCHANGED <<heap, inputs, before, result, error, format, document,
                   data_nodes, schema, extractor, counts, calls, file, loaded,
                   json_schema,
                   save_args, made_dirs>>

NextClassify == Classify

SpecClassify == InitClassify /\ [][NextClassify]_vars

\* C17: the JSON classifier maps None to null, a bool to boolean (never
\* integer), an int to integer, a float to float, a list to array, a dict to
\* object, a str to string, date or datetime only ("42" and "true" are
\* string) and a value of any other type to unknown.
C17_JsonClassifier ==
    (pc = "done" /\ format = "value") =>
        /\ determined \in DataTypes
        /\ document.t = "null" => determined = "null"
        /\ document.t = "bool" => determined = "boolean"
        /\ document.t = "int" => determined = "integer"
        /\ document.t = "float" => determined = "float"
        /\ document.t = "list" => determined = "array"
        /\ document.t = "dict" => determined = "object"
        /\ document.t = "str" => determined \in {"string", "date", "datetime"}
        /\ document \in {JStr(<<"4", "2">>), JStr(<<"t", "r", "u", "e">>)}
               => determined = "string"
        /\ document.t = "other" => determined = "unknown"

\* The bool True was classified.
C17_Witness ==
    /\ pc = "done" /\ format = "value"
    /\ document = JBool(TRUE)
    /\ determined = "boolean"

\* ------------------------------------------------------ the JSON Schema form

\* SchemaElement(name=.., data_type=.., required=.., ..): an element built
\* with its required flag given.
RequiredElement(name, data_type, required, properties, attributes, array_type) ==
    [name |-> name, data_type |-> data_type, required |-> required,
     properties |-> properties, attributes |-> attributes,
     array_type |-> array_type, occurrences |-> 1, examples |-> <<>>]

\* The dict _element_to_json_schema returns: keys are the keys it holds.
\* The value under "description" is element.description, a text made from
\* the element's name that the elements of the model leave out; "required"
\* is kept as the set of its names.  No element of the model has min_value,
\* max_value, min_length, max_length or pattern set, so the keys made from
\* them are never present.
JsonSchemaDict(keys, type, properties, required, items) ==
    [keys |-> keys, type |-> type, properties |-> properties,
     required |-> required, items |-> items]

\* type_mapping with every DataType mapped to its own value.
TypeMapping_Identity(data_type) == data_type

\* type_mapping.get(element.data_type, "string")
TypeMapping(data_type) ==
    CASE data_type = "string" -> "string"
      [] data_type = "integer" -> "integer"
      [] data_type = "float" -> "number"
      [] data_type = "boolean" -> "boolean"
      [] data_type = "object" -> "object"
      [] data_type = "array" -> "array"
      [] data_type = "null" -> "null"
      [] data_type = "date" -> "string"
      [] data_type = "datetime" -> "string"
      [] data_type = "unknown" -> "string"
      [] OTHER -> "string"

\* Schema._element_to_json_schema(element)
RECURSIVE ElementToJsonSchema(_)
ElementToJsonSchema(element) ==
    LET object == element.data_type = "object"
        array == element.data_type = "array"
        has_properties == object /\ DOMAIN element.properties # {}
        required_props ==
            {name \in DOMAIN element.properties :
                Required(element.properties[name])}
        has_required == has_properties /\ required_props # {}
        has_items == ~object /\ array /\ element.array_type # NoValue
    IN  JsonSchemaDict(
            {"type", "description"}
                \cup (IF has_properties THEN {"properties"} ELSE {})
                \cup (IF has_required THEN {"required"} ELSE {})
                \cup (IF has_items THEN {"items"} ELSE {}),
            TypeMapping(element.data_type),
            IF has_properties
            THEN [name \in DOMAIN element.properties |->
                     ElementToJsonSchema(element.properties[name])]
            ELSE EmptyMap,
            IF has_required THEN required_props ELSE {},
            IF has_items THEN ElementToJsonSchema(element.array_type)
            ELSE NoValue)

\* Schema.to_json_schema(); {} is the dict without keys.
ToJsonSchema(s) ==
    IF s.root_element = NoValue
    THEN JsonSchemaDict({}, "", EmptyMap, {}, NoValue)
    ELSE ElementToJsonSchema(s.root_element)

\* Schemas built by hand: a root of every DataType, with and without
\* array_type, with properties that are or are not required, with an
\* attribute that is or is not required, and a Schema without root element.
RenderLeaves ==
    {RequiredElement(n, dt, r, EmptyMap, EmptyMap, NoValue) :
        n \in {"a"}, dt \in DataTypes, r \in BOOLEAN}
RenderItems ==
    {RequiredElement("item", dt, FALSE, EmptyMap, EmptyMap, NoValue) :
        dt \in DataTypes}
RenderArrays ==
    {RequiredElement("a", "array", r, EmptyMap, EmptyMap, at) :
        r \in BOOLEAN, at \in RenderItems \cup {NoValue}}
RenderAttributes ==
    {EmptyMap} \cup
    {[n \in {"id"} |-> AttributeSchema("id", "integer", r, NoneStr)] :
        r \in BOOLEAN}
RenderRoots ==
    {RequiredElement("root", e.data_type, FALSE, EmptyMap, EmptyMap,
                     e.array_type) : e \in RenderLeaves \cup RenderArrays}
    \cup {RequiredElement("root", "object", FALSE, ps, as, NoValue) :
             ps \in {EmptyMap}
                    \cup {[n \in {"a"} |-> e] :
                             e \in RenderLeaves \cup RenderArrays}
                    \cup {[n \in {"a", "b"} |->
                              IF n = "a" THEN e
                              ELSE [e EXCEPT !.required = ~e.required]] :
                             e \in RenderLeaves},
             as \in RenderAttributes}
RenderSchemas ==
    {ExtractedSchema(ft, root, 0, 0, 0, 0) :
        ft \in {"json"}, root \in RenderRoots \cup {NoValue}}

InitRender ==
    InitDocs([format : {"json"}, document : JsonDocs]
             \cup [format : {"xml"}, document : XmlDocs]
             \cup [format : {"schema"}, document : RenderSchemas])

\* schema = Schema(name=.., file_type=.., root_element=..)
Construct ==
    /\ pc = "call" /\ format = "schema"
    /\ schema' = document
    /\ pc' = "done"
    /\ UNCHANGED <<heap, inputs, before, result, error, format, document,
                   data_nodes, extractor, counts, calls, file, loaded,
                   determined, json_schema,
                   save_args, made_dirs>>

\* json_schema = schema.to_json_schema()
RenderJsonSchema ==
    /\ pc = "done" /\ schema # NoValue
    /\ json_schema' = ToJsonSchema(schema)
    /\ pc' = "rendered"
    /\ UNCHANGED <<heap, inputs, before, result, error, format, document,
                   data_nodes, schema, extractor, counts, calls, file, loaded,
                   determined, save_args, made_dirs>>

NextRender == ExtractJson \/ ExtractXml \/ Construct \/ RenderJsonSchema

SpecRender == InitRender /\ [][NextRender]_vars

\* Each element of the tree under element with the dict rendered for it in
\* js: the element itself, its properties under "properties" and its
\* array_type under "items".
RECURSIVE RenderedPairs(_, _)
RenderedPairs(element, js) ==
    {<<element, js>>}
    \cup UNION {RenderedPairs(element.properties[n], js.properties[n]) :
                   n \in DOMAIN js.properties}
    \cup (IF "items" \in js.keys
          THEN RenderedPairs(element.array_type, js.items) ELSE {})

\* C18: to_json_schema returns a dict for a root of each of the ten
\* DataTypes; "type" is integer for integer, number for float, boolean for
\* boolean, object for object, array for array, null for null and string
\* for string, date, datetime and unknown; an array element has "items",
\* the rendering of its array_type, exactly when array_type is set; a
\* Schema without root element gives the empty dict.
C18_JsonSchemaForm ==
    pc = "rendered" =>
        IF schema.root_element = NoValue
        THEN json_schema.keys = {}
        ELSE \A p \in RenderedPairs(schema.root_element, json_schema) :
                LET element == p[1]
                    js == p[2]
                IN  /\ "type" \in js.keys
                    /\ element.data_type \in
                           {"integer", "boolean", "object", "array", "null"}
                           => js.type = element.data_type
                    /\ element.data_type = "float" => js.type = "number"
                    /\ element.data_type \in
                           {"string", "date", "datetime", "unknown"}
                           => js.type = "string"
                    /\ element.data_type = "array" =>
                           /\ "items" \in js.keys
                                  <=> element.array_type # NoValue
                           /\ element.array_type # NoValue =>
                                  js.items =
                                      ElementToJsonSchema(element.array_type)
                    /\ element.data_type # "array" => "items" \notin js.keys

\* An array of floats was rendered with "items" of type number.
C18_Witness ==
    /\ pc = "rendered"
    /\ schema.root_element # NoValue
    /\ schema.root_element.data_type = "array"
    /\ "items" \in json_schema.keys
    /\ json_schema.items.type = "number"

\* The names under "required" in a rendered dict.
RequiredNames(js) == IF "required" \in js.keys THEN js.required ELSE {}

\* C19: in the JSON Schema form of an object element "required" holds
\* exactly the names of its properties and attributes whose required flag
\* is true, the attributes of an XML extraction among them.
C19_RequiredList ==
    (pc = "rendered" /\ schema.root_element # NoValue) =>
        \A p \in RenderedPairs(schema.root_element, json_schema) :
            LET element == p[1]
                js == p[2]
            IN  element.data_type = "object" =>
                    RequiredNames(js) =
                        {n \in DOMAIN element.properties :
                            Required(element.properties[n])}
                        \cup {n \in DOMAIN element.attributes :
                                 element.attributes[n].required}

\* ------------------------------------------- merging elements of two types

\* Input trees whose roots differ in DataType and array_type: an object or
\* array root, the array root with or without array_type, and a property
\* "p" that is a string, an integer or an array of integers.
ElemT(dt, props, at) ==
    [data_type |-> dt, attributes |-> EmptyMap, properties |-> props,
     array_type |-> at]
TypeLeaves ==
    {ElemT("string", EmptyMap, NoValue), ElemT("integer", EmptyMap, NoValue)}
TypeInner ==
    TypeLeaves
    \cup {ElemT("array", EmptyMap, ElemT("integer", EmptyMap, NoValue))}
TypeRoots ==
    {ElemT("object", ps, NoValue) : ps \in PartialFns({"p"}, TypeInner)}
    \cup {ElemT("array", ps, at) :
             ps \in PartialFns({"p"}, {ElemT("string", EmptyMap, NoValue)}),
             at \in {NoValue, ElemT("string", EmptyMap, NoValue)}}
TypeSchemaValues == {[root |-> r] : r \in TypeRoots \cup {NoValue}}

InitTypes == InitWith(TypeSchemaValues)

SpecTypes == InitTypes /\ [][Next]_vars

\* The element the property path q leads to from the element value v.
RECURSIVE ElementAt(_, _)
ElementAt(v, q) ==
    IF q = <<>> THEN v ELSE ElementAt(v.properties[Head(q)], Tail(q))

\* The first input whose tree has an element at the property path q.
FirstWith(q) ==
    CHOOSE i \in 1..Len(inputs) :
        /\ q \in PropertyPaths(RootBefore(i)) \cup {<<>>}
        /\ \A j \in 1..(i - 1) : q \notin PropertyPaths(RootBefore(j)) \cup {<<>>}

\* C20: after merge_schemas over two or more schemas with roots, every
\* element of the merged tree has the name, the DataType and the array_type
\* the element at the same place had in the first input that has one there,
\* whatever DataType and array_type the later inputs have there.
C20_FirstScalars ==
    Merged2 =>
        \A q \in PropertyPaths(MergedRoot) \cup {<<>>} :
            LET merged == ElementAt(MergedRoot, q)
                first == ElementAt(RootBefore(FirstWith(q)), q)
            IN  /\ merged.name = first.name
                /\ merged.data_type = first.data_type
                /\ merged.array_type = first.array_type

\* Two roots of different DataType and array_type, with a property "p" of
\* different DataTypes, were merged.
C20_Witness ==
    /\ Merged2
    /\ RootBefore(1).data_type # RootBefore(2).data_type
    /\ RootBefore(1).array_type = NoValue
    /\ RootBefore(2).array_type # NoValue
    /\ "p" \in DOMAIN RootBefore(1).properties
    /\ "p" \in DOMAIN RootBefore(2).properties
    /\ RootBefore(1).properties["p"].array_type # NoValue
    /\ RootBefore(2).properties["p"].data_type = "string"
    /\ MergedRoot.data_type = "object"
    /\ MergedRoot.array_type = NoValue
    /\ MergedRoot.properties["p"].data_type = "array"
    /\ MergedRoot.properties["p"].array_type # NoValue

\* ------------------------------------------------ the merged Schema's fields

\* What the Schema merge_schemas returned holds, and the first input.
MergedSchema == heap.schemas[result]
FirstInput == before.schemas[inputs[1]]

\* C21 as stated: the Schema merge_schemas returned is named
\* "merged_schema" and has the total_elements, total_attributes and
\* max_depth of the first input.  A list of one schema is returned as it
\* is, under its own name.
C21_NameReset ==
    (Done /\ inputs # <<>>) =>
        /\ MergedSchema.name = "merged_schema"
        /\ MergedSchema.total_elements = FirstInput.total_elements
        /\ MergedSchema.total_attributes = FirstInput.total_attributes
        /\ MergedSchema.max_depth = FirstInput.max_depth

\* C21: the Schema merge_schemas returned for two or more schemas is named
\* "merged_schema" and has the total_elements, total_attributes and
\* max_depth of the first input, whatever the merged tree holds.
C21_NameResetOfMany ==
    (Done /\ Len(inputs) >= 2) =>
        /\ MergedSchema.name = "merged_schema"
        /\ MergedSchema.total_elements = FirstInput.total_elements
        /\ MergedSchema.total_attributes = FirstInput.total_attributes
        /\ MergedSchema.max_depth = FirstInput.max_depth

\* A merge whose tree has more elements and is deeper than the statistics
\* of the Schema returned say.
C21_Witness ==
    /\ Merged2
    /\ MergedSchema.name = "merged_schema"
    /\ MergedSchema.total_elements = 1
    /\ CountElements(MergedRoot) > 1
    /\ MergedSchema.max_depth = 0
    /\ DepthOf(MergedRoot) > 0

\* ------------------------------------------------- XML extraction by itself

\* XML documents with text next to children and with children tagged
\* "text", the name the text property takes: a root "r" with no text, a
\* number or a word, and up to MaxItems children tagged "a" or "text".
TextTagChildren ==
    {Element(tag, at, NoneStr, <<>>) :
        tag \in {"a", "text"}, at \in {<<>>, IdAttr}}
TextTagDocs ==
    {Element("r", <<>>, tx, cs) :
        tx \in {NoneStr, Some(<<"7">>), Some(<<"x">>)},
        cs \in Lists(TextTagChildren, MaxItems)}

InitXml ==
    InitDocs([format : {"xml"}, document : XmlDocs \cup TextTagDocs])

NextXml == ExtractXml

SpecXml == InitXml /\ [][NextXml]_vars

\* The text of an element as the extractor reads it, and whether
\* schema_element.properties["text"] is made from it.
TextContent(element) == Strip(element.text[1])
TypedText(element) ==
    HasText(element) /\ XmlDataType(TextContent(element)) # "string"

\* The elements _extract_element_schema walks, each with the SchemaElement
\* the schema tree holds for it: the element itself and, for each tag among
\* its children, the first child of that tag with the property under the
\* tag, or with that property's array_type when the tag repeats.  The
\* children tagged "text" of an element with typed text have none: the text
\* property took their place.
RECURSIVE XmlWalked(_, _)
XmlWalked(element, se) ==
    {<<element, se>>}
    \cup UNION
        {LET p == se.properties[tag]
             next == IF Cardinality(ChildrenOf(element, tag)) = 1 THEN p
                     ELSE p.array_type
         IN  IF next = NoValue \/ (tag = "text" /\ TypedText(element)) THEN {}
             ELSE XmlWalked(FirstChild(element, tag), next) :
            tag \in ChildTags(element) \cap DOMAIN se.properties}

\* C22: in an XML extraction a tag that occurs k >= 2 times among the
\* children of an element is one property of DataType array with
\* occurrences k and array_type the schema of the first occurrence alone;
\* a tag that occurs once is the child's own schema, with occurrences 1.
C22_RepeatedTag ==
    (Extracted /\ format = "xml") =>
        \A w \in XmlWalked(document, schema.root_element) :
            \A tag \in ChildTags(w[1]) :
                LET k == Cardinality(ChildrenOf(w[1], tag))
                    first == XmlElementSchema(FirstChild(w[1], tag))
                IN  /\ tag \in DOMAIN w[2].properties
                    /\ k >= 2 =>
                           /\ w[2].properties[tag].name = tag
                           /\ w[2].properties[tag].data_type = "array"
                           /\ w[2].properties[tag].occurrences = k
                           /\ w[2].properties[tag].array_type = first
                    /\ k = 1 =>
                           /\ w[2].properties[tag] = first
                           /\ w[2].properties[tag].occurrences = 1

\* C23: in an XML extraction the schema of every walked element has a
\* SchemaAttribute with required = true for each attribute of the element
\* and no other, and every attribute of every element has a DataNode whose
\* path is the element's path, "@" and the attribute name, one level below
\* the element, with the element's path as parent_path and is_leaf true.
C23_Attributes ==
    (Extracted /\ format = "xml") =>
        /\ \A w \in XmlWalked(document, schema.root_element) :
               /\ DOMAIN w[2].attributes =
                      {w[1].attrib[k][1] : k \in 1..Len(w[1].attrib)}
               /\ \A n \in DOMAIN w[2].attributes :
                      /\ w[2].attributes[n].name = n
                      /\ w[2].attributes[n].required = TRUE
        /\ \A en \in XmlElementNodes(document, 1) :
               \A k \in 1..Len(en[1].attrib) :
                   LET own == data_nodes[en[2]]
                       node == data_nodes[en[2] + k]
                       attr_name == en[1].attrib[k][1]
                   IN  /\ node.path = own.path \o "@" \o attr_name
                       /\ node.name = attr_name
                       /\ node.depth = own.depth + 1
                       /\ node.parent_path = Some(own.path)
                       /\ node.is_leaf = TRUE

\* A child element with an attribute was walked: its schema has the
\* attribute and the list has the attribute's node at depth 2.
C23_Witness ==
    /\ Extracted /\ format = "xml"
    /\ "a" \in DOMAIN schema.root_element.properties
    /\ "id" \in DOMAIN schema.root_element.properties["a"].attributes
    /\ schema.root_element.properties["a"].attributes["id"].required
    /\ \E i \in 1..Len(data_nodes) :
           /\ data_nodes[i].path = "r.a@id"
           /\ data_nodes[i].depth = 2
           /\ data_nodes[i].is_leaf

\* C24: in an XML extraction an element with non-blank text has a text
\* DataNode after its own and its attributes' nodes (path the element's
\* path and "#text", one level below it, is_leaf true), and its schema has
\* the property "text" made from the text exactly when the text's type is
\* not string; with blank or no text the element has no text DataNode and
\* all its properties are those of its children.
C24_Text ==
    (Extracted /\ format = "xml") =>
        /\ \A en \in XmlElementNodes(document, 1) :
               LET own == data_nodes[en[2]]
                   j == en[2] + Len(en[1].attrib) + 1
                   text == en[1].text
                   blank == text = NoneStr
                            \/ \A c \in 1..Len(text[1]) :
                                   text[1][c] \in Whitespace
               IN  IF ~blank
                   THEN /\ j <= Len(data_nodes)
                        /\ data_nodes[j].path = own.path \o "#text"
                        /\ data_nodes[j].name = "text"
                        /\ data_nodes[j].depth = own.depth + 1
                        /\ data_nodes[j].parent_path = Some(own.path)
                        /\ data_nodes[j].is_leaf = TRUE
                   ELSE j <= Len(data_nodes) =>
                            data_nodes[j].path # own.path \o "#text"
        /\ \A w \in XmlWalked(document, schema.root_element) :
               IF TypedText(w[1])
               THEN /\ "text" \in DOMAIN w[2].properties
                    /\ w[2].properties["text"].name = "text"
                    /\ w[2].properties["text"].data_type =
                           XmlDataType(TextContent(w[1]))
                    /\ w[2].properties["text"].data_type # "string"
                    /\ w[2].properties["text"].examples =
                           <<TextContent(w[1])>>
               ELSE DOMAIN w[2].properties \subseteq ChildTags(w[1])

\* A child with the padded text " 7\n" was walked: the text node holds
\* "7" and the child's schema has the property "text" of type integer.
C24_Witness ==
    /\ Extracted /\ format = "xml"
    /\ Len(document.children) = 1
    /\ document.children[1].text = Some(<<" ", "7", "\n">>)
    /\ schema.root_element.properties["a"].properties["text"].data_type
           = "integer"
    /\ \E i \in 1..Len(data_nodes) :
           /\ data_nodes[i].path = "r.a#text"
           /\ data_nodes[i].value = Some(<<"7">>)
           /\ data_nodes[i].data_type = "integer"

\* The positions of a JSON document, each as <<value, depth>>: the value
\* itself, then for each member of a dict, or each item of a list, in
\* document order, the positions of that member or item.
RECURSIVE JsonPositions(_, _)
JsonPositions(data, depth) ==
    <<<<data, depth>>>>
    \o (IF data.t = "dict"
        THEN Flatten([k \in 1..Len(data.dict) |->
                         JsonPositions(data.dict[k][2], depth + 1)])
        ELSE IF data.t = "list"
        THEN Flatten([i \in 1..Len(data.list) |->
                         JsonPositions(data.list[i], depth + 1)])
        ELSE <<>>)

\* C25: the Data Node List of a JSON extraction has one DataNode for each
\* position of the document (the root, every member of an object, every
\* item of an array), each before its descendants and the children of a
\* node in document order, and total_data_nodes is the length of the list.
C25_OneNodePerPosition ==
    (Extracted /\ format = "json") =>
        LET positions == JsonPositions(document, 0)
        IN  /\ Len(data_nodes) = Len(positions)
            /\ \A i \in 1..Len(positions) :
                   /\ data_nodes[i].value = positions[i][1]
                   /\ data_nodes[i].depth = positions[i][2]
            /\ schema.total_data_nodes = Len(data_nodes)

\* An array of two items of different types: the list has the array's node
\* and then a node for the item at index 0 and one for the item at index 1.
C25_Witness ==
    /\ Extracted /\ format = "json"
    /\ document = JList(<<JInt(1), JStr(<<"x">>)>>)
    /\ Len(data_nodes) = 3
    /\ data_nodes[2].path = "root[0]"
    /\ data_nodes[3].path = "root[1]"
    /\ schema.total_data_nodes = 3

\* C26: after any sequence of extract calls, on one instance or several,
\* total_elements and total_attributes of every Schema returned count the
\* names of that call's document alone, and a call leaves what the earlier
\* calls returned as it was.
C26_NoLeak ==
    /\ [](\A i \in 1..Len(calls) :
              /\ calls[i].format = "json" =>
                     /\ calls[i].schema.total_elements =
                            Cardinality(JsonPropertyNames(calls[i].document))
                     /\ calls[i].schema.total_attributes = 0
              /\ calls[i].format = "xml" =>
                     /\ calls[i].schema.total_elements =
                            Cardinality(XmlElementNames(calls[i].document))
                     /\ calls[i].schema.total_attributes =
                            Cardinality(XmlAttributeNames(calls[i].document)))
    /\ [][\A i \in 1..Len(calls) : calls'[i] = calls[i]]_vars

\* One instance extracted an XML document with an attribute and then one
\* with a child element and no attribute: the second Schema counts two
\* elements and no attribute, the first still one of each.
C26_Witness ==
    /\ Len(calls) >= 2
    /\ calls[1].extractor = calls[2].extractor
    /\ calls[1].format = "xml" /\ calls[2].format = "xml"
    /\ calls[1].schema.total_attributes = 1
    /\ calls[1].schema.total_elements = 1
    /\ calls[2].schema.total_attributes = 0
    /\ calls[2].schema.total_elements = 2

\* ------------------------------------------------------ unsupported formats

\* A file handed to extract_schema: the extension of its path, what it
\* holds ("json", "xml" or "text", any other text) and the document a
\* parser makes of it.
File(ext, kind, parsed) == [ext |-> ext, kind |-> kind, parsed |-> parsed]

\* The first character of content.strip(): "<" for XML, "{" or "[" for a
\* JSON object or array, another character for a JSON scalar and for text.
ContentStart(f) ==
    IF f.kind = "xml" THEN "<"
    ELSE IF f.kind = "json" /\ f.parsed.t = "dict" THEN "{"
    ELSE IF f.kind = "json" /\ f.parsed.t = "list" THEN "["
    ELSE "x"

\* detect_file_type(file_path) of an existing, readable file
DetectFileType(f) ==
    LET ext == LowerStr(f.ext)
    IN  IF ext \in {<<".", "x", "m", "l">>, <<".", "x", "h", "t", "m", "l">>,
                    <<".", "s", "v", "g">>}
        THEN "xml"
        ELSE IF ext \in {<<".", "j", "s", "o", "n">>, <<".", "j", "s">>}
        THEN "json"
        ELSE IF ContentStart(f) = "<" THEN "xml"
        ELSE IF ContentStart(f) \in {"{", "["} THEN "json"
        ELSE "unknown"

FileExts ==
    {<<".", "x", "m", "l">>, <<".", "J", "S", "O", "N">>,
     <<".", "t", "x", "t">>, <<>>}
FileDocs ==
    {File(ext, d.format, d.document) :
        ext \in FileExts,
        d \in CallDocs \cup [format : {"json"},
                             document : {JNull, JList(<<JInt(1)>>)}]}
    \cup {File(ext, "text", NoValue) : ext \in FileExts}

\* The formats and output directories save_schema is called with.
SaveFormats ==
    {<<"j", "s", "o", "n">>, <<"J", "S", "O", "N">>, <<"x", "s", "d">>,
     <<"d", "i", "c", "t">>, <<"y", "a", "m", "l">>, <<>>}
OutputDirs == {"", "out"}

InitFormats == InitDocs([format : {"file"}, document : FileDocs])

\* SchemaExtractor.extract_schema(file_path) up to the call of the
\* extractor: an unknown file type raises ValueError; json.load or
\* etree.parse of a file that holds something else raises its parse error
\* before the extractor resets a counter; otherwise the extractor of the detected type goes on with the document.
ExtractSchema ==
    /\ pc = "call" /\ format = "file"
    /\ LET file_type == DetectFileType(document)
       IN  IF file_type = "unknown"
           THEN /\ error' = "ValueError"
                /\ pc' = "failed"
                /\ UNCHANGED <<format, document>>
           ELSE IF file_type # document.kind
           THEN /\ error' = "ParseError"
                /\ pc' = "failed"
                /\ UNCHANGED <<format, document>>
           ELSE /\ format' = file_type
                /\ document' = document.parsed
                /\ UNCHANGED <<error, pc>>
    /\ UNCHANGED <<heap, inputs, before, result, data_nodes, schema,
                   extractor, counts, calls, file, loaded, determined,
                   json_schema, save_args, made_dirs>>

NextFormats ==
    \/ ExtractSchema
    \/ ExtractJson
    \/ ExtractXml
    \/ SaveSchemaWith(SaveFormats, OutputDirs)

SpecFormats == InitFormats /\ [][NextFormats]_vars

\* C27: extract_schema on a file whose type is detected as neither xml nor
\* json raises ValueError and no extractor runs (no Schema, no DataNode, no
\* counter, no call); save_schema with a format that is not json, xsd or
\* dict in any letter case raises ValueError and the output file is not
\* written.
C27_Unsupported ==
    /\ [][(pc = "call" /\ format = "file"
           /\ DetectFileType(document) \notin {"xml", "json"})
          => /\ pc' = "failed"
             /\ error' = "ValueError"
             /\ schema' = NoValue
             /\ data_nodes' = <<>>
             /\ counts' = counts
             /\ calls' = <<>>]_vars
    /\ []((save_args # NoValue
           /\ LowerStr(save_args.format) \notin
                  {<<"j", "s", "o", "n">>, <<"x", "s", "d">>,
                   <<"d", "i", "c", "t">>})
          => /\ pc = "failed"
             /\ error = "ValueError"
             /\ file = NoValue)

\* save_schema was called with the format "yaml" on an extracted Schema:
\* it failed and there is no output file.
C27_Witness ==
    /\ pc = "failed"
    /\ schema # NoValue
    /\ save_args # NoValue
    /\ save_args.format = <<"y", "a", "m", "l">>
    /\ error = "ValueError"
    /\ file = NoValue

\* ------------------------------------------------------ the XML classifier

Upper(c) ==
    IF \E k \in 1..Len(LowerCase) : LowerCase[k] = c
    THEN UpperCase[CHOOSE k \in 1..Len(LowerCase) : LowerCase[k] = c]
    ELSE c

\* The word w with each of its letters in lower or upper case.
CaseVariants(w) ==
    {[i \in 1..Len(w) |-> IF up[i] THEN Upper(w[i]) ELSE w[i]] :
        up \in [1..Len(w) -> BOOLEAN]}

\* The words of the boolean pattern that are not numbers.
TruthWords ==
    {<<"t", "r", "u", "e">>, <<"f", "a", "l", "s", "e">>, <<"y", "e", "s">>,
     <<"n", "o">>}

\* The text and attribute values to classify: the str values of Strings,
\* the truth words in every letter case, numbers, and words that are close
\* to a truth word or a number.
XmlValues ==
    Strings
    \cup UNION {CaseVariants(w) : w \in TruthWords}
    \cup {<<"1">>, <<"0">>, <<"1", "0">>, <<"0", "1">>, <<"-", "1">>,
          <<"-", "7">>, <<"4", "2">>, <<"1", ".", "5">>, <<"-", "0", ".", "5">>,
          <<"1", ".">>, <<".", "5">>, <<"-">>, <<"1", "\n">>,
          <<"y", "e", "s", "\n">>, <<"y">>, <<"o", "n">>,
          <<"t", "r", "u", "e", "1">>, <<" ", "1">>}

InitXmlClassify == InitDocs([format : {"text"}, document : XmlValues])

\* data_type = self._determine_data_type(value)
ClassifyXml ==
    /\ pc = "call" /\ format = "text"
    /\ determined' = XmlDataType(document)
    /\ pc' = "done"
    /\ UNCHANGED <<heap, inputs, before, result, error, format, document,
                   data_nodes, schema, extractor, counts, calls, file, loaded,
                   json_schema, save_args, made_dirs>>

NextXmlClassify == ClassifyXml

SpecXmlClassify == InitXmlClassify /\ [][NextXmlClassify]_vars

\* data_type_patterns, in dict order
PatternOrder == <<"integer", "float", "boolean", "date", "datetime">>
PatternMatches(data_type, value) ==
    CASE data_type = "integer" -> MatchInteger(value)
      [] data_type = "float" -> MatchFloat(value)
      [] data_type = "boolean" -> MatchWords(value, XmlBooleanWords)
      [] data_type = "date" -> MatchDate(value)
      [] data_type = "datetime" -> MatchDatetime(value)

\* C28: the XML classifier returns the type of the first pattern that
\* matches in the order integer, float, boolean, date, datetime, and string
\* when none matches: "1" and "0" are integer, not boolean; "true", "false",
\* "yes" and "no" in any letter case are boolean; the empty string is string.
C28_XmlClassifier ==
    (pc = "done" /\ format = "text") =>
        LET hits == {k \in 1..Len(PatternOrder) :
                        PatternMatches(PatternOrder[k], document)}
        IN  /\ hits # {} =>
                   \E k \in hits :
                       /\ \A j \in hits : k <= j
                       /\ determined = PatternOrder[k]
            /\ hits = {} => determined = "string"
            /\ document \in {<<"1">>, <<"0">>} => determined = "integer"
            /\ LowerStr(document) \in TruthWords => determined = "boolean"
            /\ document = <<>> => determined = "string"

\* The value "1", which the integer and the boolean pattern both match, was
\* classified integer.
C28_Witness ==
    /\ pc = "done" /\ format = "text"
    /\ document = <<"1">>
    /\ MatchWords(document, XmlBooleanWords)
    /\ determined = "integer"

\* ------------------------------------------------- schemas without a root

\* C29: when merge_schemas is given two or more schemas and one of them has
\* no root element, no element is merged: the result's root_element is the
\* first schema's root_element, the same object or None, no element or
\* attribute object is made or changed, and the other roots add nothing.
C29_NoRootNoMerge ==
    (Done /\ Len(inputs) >= 2 /\ ~AllHaveRoots) =>
        /\ error = ""
        /\ heap.schemas[result].root_element = InputRoot(1)
        /\ heap.elems = before.elems
        /\ heap.attrs = before.attrs
        /\ InputRoot(1) # NoneId => MergedRoot = RootBefore(1)

\* Three schemas were merged: the second has no root, and the third has a
\* root with an attribute and a property that the first's root lacks.
C29_Witness ==
    /\ Done /\ Len(inputs) = 3
    /\ InputRoot(1) # NoneId
    /\ InputRoot(2) = NoneId
    /\ InputRoot(3) # NoneId
    /\ RootBefore(1).attributes = EmptyMap
    /\ RootBefore(1).properties = EmptyMap
    /\ "id" \in DOMAIN RootBefore(3).attributes
    /\ "p" \in DOMAIN RootBefore(3).properties
    /\ MergedRoot = RootBefore(1)

\* ------------------------------------------------------- the pairwise fold

\* A fresh copy of schema s: new objects for the schema, its elements and
\* their attributes, holding the same values (a deep copy).
FreshCopy(h, s) ==
    NewSchema(h, h.schemas[s].name,
              [root |-> IF h.schemas[s].root_element = NoneId THEN NoValue
                        ELSE ElementValue(h, h.schemas[s].root_element)])

\* merge_schemas([acc, s]) for each s of rest in turn, acc the result of the
\* merge before, every call on fresh copies of its two inputs:
\* [h, r |-> the last result].
RECURSIVE FoldMerge(_, _, _)
FoldMerge(h, acc, rest) ==
    IF rest = <<>> THEN [h |-> h, r |-> acc]
    ELSE LET a == FreshCopy(h, acc)
             b == FreshCopy(a.h, Head(rest))
             m == MergeSchemas(b.h, <<a.r, b.r>>)
         IN  FoldMerge(m.h, m.r, Tail(rest))

\* The root of the fold over the schemas the call was given.
FoldedRoot ==
    LET f == FoldMerge(before, inputs[1], Tail(inputs))
    IN  ElementValue(f.h, f.h.schemas[f.r].root_element)

\* C30: for three or more schemas that all have root elements, the root of
\* merge_schemas([s1, ..., sn]) equals, as a value, the root of merging s1
\* with s2, the result with s3 and so on, each merge on fresh copies.
C30_PairwiseFold ==
    (Done /\ Len(inputs) >= 3 /\ AllHaveRoots) => MergedRoot = FoldedRoot

\* Three schemas were merged whose roots differ: the attribute "id" is
\* required in the first only, and the property "p" is in the second and
\* third only, with different content.
C30_Witness ==
    /\ Done /\ Len(inputs) = 3 /\ AllHaveRoots
    /\ \A i \in 1..3 : "id" \in DOMAIN RootBefore(i).attributes
    /\ RootBefore(1).attributes["id"].required
    /\ ~RootBefore(2).attributes["id"].required
    /\ "p" \notin DOMAIN RootBefore(1).properties
    /\ "p" \in DOMAIN RootBefore(2).properties
    /\ "p" \in DOMAIN RootBefore(3).properties
    /\ RootBefore(2).properties["p"] # RootBefore(3).properties["p"]
    /\ MergedRoot = FoldedRoot

====
